---- MODULE Spec2Model ----
(***************************************************************************)
(* Task registry, worker wrapper and scraping pipelines of the scraper     *)
(* application (scraper/task_manager.py, scraper/views.py and the          *)
(* scraper pipelines).                                                      *)
(*                                                                         *)
(* Grain of the model: every method of Task (start, complete,              *)
(* update_progress, cancel) is one step; a view handler is one step; the   *)
(* worker thread of a task (run_task_in_thread.wrapped_func and the        *)
(* pipeline it calls) is a sequence of steps, one per statement that reads *)
(* or writes the task, so that handlers of other threads interleave        *)
(* between any two of them.                                                *)
(***************************************************************************)
EXTENDS Integers, Sequences, FiniteSets, TLC

\* ------------------------------------------------------------------ bounds
MaxTasks == 2          \* tasks created in one behaviour
MaxActive == 1         \* worker threads alive at once
MaxClock == 3601       \* last instant of the wall clock, in seconds

\* -------------------------------------------------------- program constants
CURRENT_YEAR == 2021           \* settings.CURRENT_YEAR (the hard ceiling of a range)
SkippedYear == 2020            \* the year every pipeline leaves out
RetentionSeconds == 3600       \* cleanup_old_tasks: age after which a task is removed
ProgressCap == 99              \* Task.update_progress: highest progress before completion
ProgressDone == 100            \* Task.complete: progress of a completed task

\* TaskStatus
PENDING == "pending"
RUNNING == "running"
SUCCESS == "success"
FAILURE == "failure"
CANCELLED == "cancelled"
TaskStatus == {PENDING, RUNNING, SUCCESS, FAILURE, CANCELLED}
Terminal == {SUCCESS, FAILURE, CANCELLED}

None == "None"                                  \* Python's None (error, exception)
NoTime == -1                                    \* Python's None as a timestamp
CancelMessage == "Task cancelled by user."      \* Task.cancel: error text
NotFoundMessage == "Task with ID not found"     \* get_task: text of TaskNotFoundError
ScrapeErrorMessage == "Unexpected error during scraping process"

\* the task types the trigger views create, and how far time moves in one step
TaskTypes == {"scrape_stats"}
TickSteps == {RetentionSeconds, RetentionSeconds + 1}
StartYears == {SkippedYear}
EndYears == SkippedYear..CURRENT_YEAR

VARIABLES
    clock,      \* datetime.now(), in seconds
    tasks,      \* the keys of the global registry `tasks`
    task,       \* the Task objects ever created, by id
    worker,     \* the worker thread of each task: position, loop index, exception
    handler,    \* the request threads inside a trigger view: position and locals
    response,   \* the last response an endpoint returned
    pipe,       \* the locals of the scraping pipeline that is observed in detail
    files       \* the files written under DATA_PATH, in the order of the writes

vars == <<clock, tasks, task, worker, handler, response, pipe, files>>
\* what the task registry and the workers leave alone
rest == <<handler, response, pipe, files>>

Ids == DOMAIN task

\* ------------------------------------------------------------ Task methods
\* Task.__init__
NewTask(type, s, e, now) ==
    [task_type |-> type, status |-> PENDING, created_at |-> now,
     started_at |-> NoTime, completed_at |-> NoTime,
     start_year |-> s, end_year |-> e,
     error |-> None, progress |-> 0, cancelled |-> FALSE]

\* Task.start
Start(t, now) == [t EXCEPT !.status = RUNNING, !.started_at = now]

\* completion that leaves the progress as it was
Complete_KeepProgress(t, success, error, now) ==
    IF t.status # CANCELLED
    THEN [t EXCEPT !.status = IF success THEN SUCCESS ELSE FAILURE,
                   !.completed_at = now,
                   !.error = error]
    ELSE t

\* completion that does not store the error text
Complete_DropError(t, success, error, now) ==
    IF t.status # CANCELLED
    THEN [t EXCEPT !.status = IF success THEN SUCCESS ELSE FAILURE,
                   !.completed_at = now,
                   !.progress = ProgressDone]
    ELSE t

\* Task.complete
Complete(t, success, error, now) ==
    IF t.status # CANCELLED
    THEN [t EXCEPT !.status = IF success THEN SUCCESS ELSE FAILURE,
                   !.completed_at = now,
                   !.error = error,
                   !.progress = ProgressDone]
    ELSE t

Min(a, b) == IF a < b THEN a ELSE b
Max(a, b) == IF a > b THEN a ELSE b

\* progress capped at 100 instead of 99
UpdateProgress_Cap100(t, p) ==
    IF t.status # CANCELLED
    THEN [t EXCEPT !.progress = Min(ProgressDone, Max(0, p))]
    ELSE t

\* progress without the lower clamp
UpdateProgress_NoFloor(t, p) ==
    IF t.status # CANCELLED
    THEN [t EXCEPT !.progress = Min(ProgressCap, p)]
    ELSE t

\* Task.update_progress
UpdateProgress(t, p) ==
    IF t.status # CANCELLED
    THEN [t EXCEPT !.progress = Min(ProgressCap, Max(0, p))]
    ELSE t

\* cancellation that records no completion time
Cancel_KeepTimestamp(t, now) ==
    IF t.status \in {PENDING, RUNNING}
    THEN [t EXCEPT !.cancelled = TRUE, !.status = CANCELLED, !.error = CancelMessage]
    ELSE t

\* cancellation that puts the progress back to zero
Cancel_ResetProgress(t, now) ==
    IF t.status \in {PENDING, RUNNING}
    THEN [t EXCEPT !.cancelled = TRUE, !.status = CANCELLED,
                   !.completed_at = now, !.error = CancelMessage, !.progress = 0]
    ELSE t

\* Task.cancel
Cancel(t, now) ==
    IF t.status \in {PENDING, RUNNING}
    THEN [t EXCEPT !.cancelled = TRUE, !.status = CANCELLED,
                   !.completed_at = now, !.error = CancelMessage]
    ELSE t

\* ------------------------------------------------------ registry functions
\* cleanup_old_tasks: the keys that stay in the registry
CleanupOldTasks(reg, heap, now) ==
    {id \in reg : ~(heap[id].completed_at # NoTime
                    /\ now - heap[id].completed_at > RetentionSeconds)}

\* every year of the range, none left out
YearsFrom_All(s, e) == [k \in 1..(e - s + 1) |-> s + k - 1]

\* the years a pipeline processes, in order
RECURSIVE YearsFrom(_, _)
YearsFrom(s, e) ==
    IF s > e THEN <<>>
    ELSE (IF s # SkippedYear THEN <<s>> ELSE <<>>) \o YearsFrom(s + 1, e)

YearsToProcess(t) == YearsFrom(t.start_year, t.end_year)

\* the pairs (k, n), n <= 130, for which (k / n) * 100 in binary floating point is
\* below the integer 100 * k / n, so that int() gives one less
RoundedDown == {<<29, 50>>, <<29, 100>>, <<57, 100>>, <<58, 100>>}

\* progress that counts the years that are left
YearProgress_Falling(k, n) == (100 * (n - k)) \div n

\* progress reported after the k-th of n years: int(((i + 1) / total_years) * 100)
YearProgress(k, n) == (100 * k) \div n - (IF <<k, n>> \in RoundedDown THEN 1 ELSE 0)

NewWorker == [pc |-> "check", i |-> 0, exc |-> None]
\* a Task object that was not handed to run_task_in_thread
NoWorker == [pc |-> "none", i |-> 0, exc |-> None]
\* the thread has ended and its locals are gone
EndWorker == [pc |-> "done", i |-> 0, exc |-> None]

\* the request threads that can be inside a trigger view at the same time
Handlers == {"h1", "h2"}
\* a request thread outside cleanup_old_tasks: no locals
IdleHandler == [pc |-> "idle", now |-> 0, snap |-> <<>>, marked |-> <<>>]

\* HTTPStatus
OK == 200
NOT_FOUND == 404
INTERNAL_SERVER_ERROR == 500
\* no request was answered yet
NoResponse == [status |-> 0, success |-> FALSE, error |-> None, body |-> <<>>]

\* no pipeline is observed
NoPipe == [kind |-> "none"]

Init ==
    /\ clock = 0
    /\ tasks = {}
    /\ task = <<>>
    /\ worker = <<>>
    /\ handler = [h \in Handlers |-> IdleHandler]
    /\ response = NoResponse
    /\ pipe = NoPipe
    /\ files = <<>>

\* ------------------------------------------------------------------- views
\* scrape_stats_view with a valid year range (the other trigger views differ in the
\* task type and the pipeline only): cleanup_old_tasks(); create_task();
\* run_task_in_thread()
scrape_view(type, s, e) ==
    /\ Len(task) < MaxTasks
    /\ Cardinality({id \in Ids : worker[id].pc # "done"}) < MaxActive
    /\ s <= e /\ e <= CURRENT_YEAR
    /\ LET id == Len(task) + 1 IN
        /\ tasks' = CleanupOldTasks(tasks, task, clock) \cup {id}
        /\ task' = Append(task, NewTask(type, s, e, clock))
        /\ worker' = Append(worker, NewWorker)
    /\ UNCHANGED <<clock, rest>>

\* cancel_task_view: get_task(task_id).cancel()
cancel_task_view(id) ==
    /\ id \in tasks
    /\ task' = [task EXCEPT ![id] = Cancel(task[id], clock)]
    /\ UNCHANGED <<clock, tasks, worker, rest>>

\* ------------------------------------------------- run_task_in_thread.wrapped_func
\* a worker that starts without looking at the cancellation flag
worker_check_NoFlag(id) ==
    /\ worker[id].pc = "check"
    /\ worker' = [worker EXCEPT ![id] = [@ EXCEPT !.pc = "start"]]
    /\ UNCHANGED <<clock, tasks, task, rest>>

\* if task.cancelled: return
worker_check(id) ==
    /\ worker[id].pc = "check"
    /\ worker' = [worker EXCEPT ![id] =
                    IF task[id].cancelled
                    THEN EndWorker
                    ELSE [@ EXCEPT !.pc = "start"]]
    /\ UNCHANGED <<clock, tasks, task, rest>>

\* task.start(); func(*args, **kwargs) is entered
worker_start(id) ==
    /\ worker[id].pc = "start"
    /\ task' = [task EXCEPT ![id] = Start(task[id], clock)]
    /\ worker' = [worker EXCEPT ![id] = [@ EXCEPT !.pc = "setup"]]
    /\ UNCHANGED <<clock, tasks, rest>>

\* func returned: if not task.cancelled: ... else: log
worker_returned(id) ==
    /\ worker[id].pc = "returned"
    /\ worker' = [worker EXCEPT ![id] =
                    IF ~task[id].cancelled
                    THEN [@ EXCEPT !.pc = "complete"]
                    ELSE EndWorker]
    /\ UNCHANGED <<clock, tasks, task, rest>>

\* task.complete(True)
worker_complete(id) ==
    /\ worker[id].pc = "complete"
    /\ task' = [task EXCEPT ![id] = Complete(task[id], TRUE, None, clock)]
    /\ worker' = [worker EXCEPT ![id] = EndWorker]
    /\ UNCHANGED <<clock, tasks, rest>>

\* except TaskCancelledError: log only
worker_except_cancelled(id) ==
    /\ worker[id].pc = "raised_cancelled"
    /\ worker' = [worker EXCEPT ![id] = EndWorker]
    /\ UNCHANGED <<clock, tasks, task, rest>>

\* except Exception as e: if task.status != TaskStatus.CANCELLED: ...
worker_except(id) ==
    /\ worker[id].pc = "raised"
    /\ worker' = [worker EXCEPT ![id] =
                    IF task[id].status # CANCELLED
                    THEN [@ EXCEPT !.pc = "fail"]
                    ELSE EndWorker]
    /\ UNCHANGED <<clock, tasks, task, rest>>

\* task.complete(False, str(e))
worker_fail(id) ==
    /\ worker[id].pc = "fail"
    /\ task' = [task EXCEPT ![id] = Complete(task[id], FALSE, worker[id].exc, clock)]
    /\ worker' = [worker EXCEPT ![id] = EndWorker]
    /\ UNCHANGED <<clock, tasks, rest>>

\* ---------------------------------------------------------------- pipelines
\* task = get_task(task_id); years_to_process = [...]
pipeline_setup(id) ==
    /\ worker[id].pc = "setup"
    /\ worker' = [worker EXCEPT ![id] =
                    IF id \notin tasks
                    THEN [@ EXCEPT !.pc = "raised", !.exc = NotFoundMessage]
                    ELSE [@ EXCEPT !.pc = "year", !.i = 0]]
    /\ UNCHANGED <<clock, tasks, task, rest>>

\* for i, year in enumerate(years_to_process): if task and task.cancelled: raise
pipeline_year(id) ==
    /\ worker[id].pc = "year"
    /\ worker' = [worker EXCEPT ![id] =
                    IF worker[id].i >= Len(YearsToProcess(task[id]))
                    THEN [@ EXCEPT !.pc = "returned"]
                    ELSE IF task[id].cancelled
                    THEN [@ EXCEPT !.pc = "raised_cancelled"]
                    ELSE [@ EXCEPT !.pc = "work"]]
    /\ UNCHANGED <<clock, tasks, task, rest>>

\* a cancellation check inside the year finds the flag set
pipeline_work_cancelled(id) ==
    /\ worker[id].pc = "work"
    /\ task[id].cancelled
    /\ worker' = [worker EXCEPT ![id] = [@ EXCEPT !.pc = "raised_cancelled"]]
    /\ UNCHANGED <<clock, tasks, task, rest>>

\* an exception leaves the year loop and is re-raised as DataScrapingError
pipeline_work_error(id) ==
    /\ worker[id].pc = "work"
    /\ worker' = [worker EXCEPT ![id] = [@ EXCEPT !.pc = "raised", !.exc = ScrapeErrorMessage]]
    /\ UNCHANGED <<clock, tasks, task, rest>>

\* the year is fetched, parsed and written, is empty, or fails and is skipped; then
\* task.update_progress(int(((i + 1) / total_years) * 100))
pipeline_progress(id) ==
    /\ worker[id].pc = "work"
    /\ task' = [task EXCEPT ![id] =
                  UpdateProgress(task[id],
                                 YearProgress(worker[id].i + 1, Len(YearsToProcess(task[id]))))]
    /\ worker' = [worker EXCEPT ![id] = [@ EXCEPT !.pc = "year", !.i = @ + 1]]
    /\ UNCHANGED <<clock, tasks, rest>>

\* ---------------------------------------------------------------- the clock
Tick(d) ==
    /\ clock + d <= MaxClock
    /\ clock' = clock + d
    /\ UNCHANGED <<tasks, task, worker, rest>>

WorkerStep(id) ==
    \/ worker_check(id)
    \/ worker_start(id)
    \/ worker_returned(id)
    \/ worker_complete(id)
    \/ worker_except_cancelled(id)
    \/ worker_except(id)
    \/ worker_fail(id)
    \/ pipeline_setup(id)
    \/ pipeline_year(id)
    \/ pipeline_work_cancelled(id)
    \/ pipeline_work_error(id)
    \/ pipeline_progress(id)

Next ==
    \/ \E type \in TaskTypes, s \in StartYears, e \in EndYears : scrape_view(type, s, e)
    \/ \E id \in Ids : cancel_task_view(id)
    \/ \E id \in Ids : WorkerStep(id)
    \/ \E d \in TickSteps : Tick(d)

Spec == Init /\ [][Next]_vars

(***************************************************************************)
(* The Task class on its own: one Task object, constructed as the unit     *)
(* tests construct it, whose methods are called in any order.              *)
(***************************************************************************)
\* the values update_progress is called with
ProgressInputs == {-2, -1, 0, 1, 50, 98, 99, 100, 101, 150}
ErrorInputs == {None, ScrapeErrorMessage}

InitTask ==
    /\ clock = 0
    /\ tasks = {}
    /\ task = <<NewTask("scrape_stats", SkippedYear, CURRENT_YEAR, 0)>>
    /\ worker = <<NoWorker>>
    /\ handler = [h \in Handlers |-> IdleHandler]
    /\ response = NoResponse
    /\ pipe = NoPipe
    /\ files = <<>>

task_start(id) ==
    /\ task' = [task EXCEPT ![id] = Start(task[id], clock)]
    /\ UNCHANGED <<clock, tasks, worker, rest>>

task_complete(id, success, error) ==
    /\ task' = [task EXCEPT ![id] = Complete(task[id], success, error, clock)]
    /\ UNCHANGED <<clock, tasks, worker, rest>>

task_update_progress(id, p) ==
    /\ task' = [task EXCEPT ![id] = UpdateProgress(task[id], p)]
    /\ UNCHANGED <<clock, tasks, worker, rest>>

task_cancel(id) ==
    /\ task' = [task EXCEPT ![id] = Cancel(task[id], clock)]
    /\ UNCHANGED <<clock, tasks, worker, rest>>

NextTask ==
    \/ \E id \in Ids : task_start(id)
    \/ \E id \in Ids, success \in BOOLEAN, error \in ErrorInputs : task_complete(id, success, error)
    \/ \E id \in Ids, p \in ProgressInputs : task_update_progress(id, p)
    \/ \E id \in Ids : task_cancel(id)
    \/ \E d \in TickSteps : Tick(d)

SpecTask == InitTask /\ [][NextTask]_vars

(***************************************************************************)
(* The registry under concurrent requests: a trigger view is a sequence of *)
(* steps (cleanup_old_tasks statement by statement, then create_task and   *)
(* run_task_in_thread), so that the requests of other threads and the      *)
(* workers interleave with a sweep that is under way.                      *)
(***************************************************************************)
\* the limit the recent-tasks endpoint passes
RecentLimit == 10
\* the limits get_recent_tasks is called with
Limits == {0, 1, 2, 3, RecentLimit}

\* list(tasks.items()): the keys in insertion order
RECURSIVE Items(_)
Items(reg) ==
    IF reg = {} THEN <<>>
    ELSE LET first == CHOOSE x \in reg : \A y \in reg : x <= y
         IN <<first>> \o Items(reg \ {first})

\* tasks.get(task_id); if not task: raise TaskNotFoundError
GetTask(reg, tid) ==
    IF tid \in reg
    THEN [found |-> TRUE, task |-> tid, error |-> None]
    ELSE [found |-> FALSE, task |-> 0, error |-> NotFoundMessage]

\* a sort that leaves the tasks in the order of the registry
InsertNewestFirst_Unsorted(sorted, id, heap) == Append(sorted, id)

\* one step of sorted(..., reverse=True): the sort is stable, so a task goes behind
\* every task that is as new as it is
InsertNewestFirst(sorted, id, heap) ==
    LET ahead == Cardinality({j \in 1..Len(sorted) :
                                heap[sorted[j]].created_at >= heap[id].created_at})
    IN SubSeq(sorted, 1, ahead) \o <<id>> \o SubSeq(sorted, ahead + 1, Len(sorted))

\* sorted(tasks.values(), key=lambda t: t.created_at, reverse=True)
RECURSIVE SortNewestFirst(_, _)
SortNewestFirst(seq, heap) ==
    IF seq = <<>> THEN <<>>
    ELSE InsertNewestFirst(SortNewestFirst(SubSeq(seq, 1, Len(seq) - 1), heap),
                           seq[Len(seq)], heap)

\* the slice seq[:limit]
Slice(seq, limit) ==
    IF limit >= 0
    THEN SubSeq(seq, 1, Min(limit, Len(seq)))
    ELSE SubSeq(seq, 1, Max(0, Len(seq) + limit))

\* get_recent_tasks
GetRecentTasks(reg, heap, limit) == Slice(SortNewestFirst(Items(reg), heap), limit)

\* the position of a request thread once an entry of the snapshot was looked at
AfterScan(hd) ==
    [hd EXCEPT !.pc = IF hd.snap # <<>> THEN "scan"
                      ELSE IF hd.marked # <<>> THEN "delete"
                      ELSE "create"]

\* a trigger view with a valid year range enters cleanup_old_tasks:
\* current_time = datetime.now(); list(tasks.items())
cleanup_begin(h) ==
    /\ handler[h].pc = "idle"
    /\ Len(task) < MaxTasks
    /\ handler' = [handler EXCEPT ![h] =
                     AfterScan([pc |-> "scan", now |-> clock,
                                snap |-> Items(tasks), marked |-> <<>>])]
    /\ UNCHANGED <<clock, tasks, task, worker, response, pipe, files>>

\* if task.completed_at: if (current_time - completed_time) > 3600: append
cleanup_scan(h) ==
    /\ handler[h].pc = "scan"
    /\ LET id == Head(handler[h].snap)
           old == /\ task[id].completed_at # NoTime
                  /\ handler[h].now - task[id].completed_at > RetentionSeconds
       IN handler' = [handler EXCEPT ![h] =
                        AfterScan([@ EXCEPT !.snap = Tail(@),
                                            !.marked = IF old THEN Append(@, id) ELSE @])]
    /\ UNCHANGED <<clock, tasks, task, worker, response, pipe, files>>

\* try: del tasks[task_id] except KeyError: log a warning
cleanup_delete(h) ==
    /\ handler[h].pc = "delete"
    /\ tasks' = tasks \ {Head(handler[h].marked)}
    /\ handler' = [handler EXCEPT ![h] = AfterScan([@ EXCEPT !.marked = Tail(@)])]
    /\ UNCHANGED <<clock, task, worker, response, pipe, files>>

\* task = create_task(type, params); run_task_in_thread(...); JsonResponse(...)
create_and_run(h, type, s, e) ==
    /\ handler[h].pc = "create"
    /\ Len(task) < MaxTasks
    /\ Cardinality({id \in Ids : worker[id].pc # "done"}) < MaxActive
    /\ s <= e /\ e <= CURRENT_YEAR
    /\ LET id == Len(task) + 1 IN
        /\ tasks' = tasks \cup {id}
        /\ task' = Append(task, NewTask(type, s, e, clock))
        /\ worker' = Append(worker, NewWorker)
        /\ response' = [status |-> OK, success |-> TRUE, error |-> None, body |-> <<id>>]
    /\ handler' = [handler EXCEPT ![h] = IdleHandler]
    /\ UNCHANGED <<clock, pipe, files>>

\* a status endpoint that answers every id with a task
task_status_AlwaysOK(tid) ==
    /\ response' = [status |-> OK, success |-> TRUE, error |-> None, body |-> <<tid>>]
    /\ UNCHANGED <<clock, tasks, task, worker, handler, pipe, files>>

\* task_status: get_task(task_id), answered with the task or with 404
task_status(tid) ==
    /\ LET got == GetTask(tasks, tid) IN
        response' = IF got.found
                    THEN [status |-> OK, success |-> TRUE, error |-> None,
                          body |-> <<got.task>>]
                    ELSE [status |-> NOT_FOUND, success |-> FALSE, error |-> got.error,
                          body |-> <<>>]
    /\ UNCHANGED <<clock, tasks, task, worker, handler, pipe, files>>

\* cancel_task_view with its response: get_task(task_id).cancel(), or 404
cancel_task_response(tid) ==
    /\ LET got == GetTask(tasks, tid) IN
        IF got.found
        THEN /\ task' = [task EXCEPT ![got.task] = Cancel(task[got.task], clock)]
             /\ response' = [status |-> OK, success |-> TRUE, error |-> None, body |-> <<>>]
        ELSE /\ task' = task
             /\ response' = [status |-> NOT_FOUND, success |-> FALSE, error |-> got.error,
                             body |-> <<>>]
    /\ UNCHANGED <<clock, tasks, worker, handler, pipe, files>>

\* recent_tasks: get_recent_tasks(10)
recent_tasks ==
    /\ response' = [status |-> OK, success |-> TRUE, error |-> None,
                    body |-> GetRecentTasks(tasks, task, RecentLimit)]
    /\ UNCHANGED <<clock, tasks, task, worker, handler, pipe, files>>

\* the ids a request can name, whether a task was created under them or not
RequestIds == 1..MaxTasks

NextRequests ==
    \/ \E h \in Handlers : cleanup_begin(h)
    \/ \E h \in Handlers : cleanup_scan(h)
    \/ \E h \in Handlers : cleanup_delete(h)
    \/ \E h \in Handlers, type \in TaskTypes, s \in StartYears, e \in EndYears :
          create_and_run(h, type, s, e)
    \/ \E tid \in RequestIds : task_status(tid)
    \/ \E tid \in RequestIds : cancel_task_response(tid)
    \/ recent_tasks
    \/ \E id \in Ids : WorkerStep(id)
    \/ \E d \in TickSteps : Tick(d)

SpecRequests == Init /\ [][NextRequests]_vars

(***************************************************************************)
(* The registry functions on their own, called one after the other as the  *)
(* unit tests call them, together with the endpoints that read the         *)
(* registry.                                                               *)
(***************************************************************************)
\* a registration that leaves the registry as it was
create_task_NotRegistered(type, s, e) ==
    /\ Len(task) < MaxTasks
    /\ s <= e /\ e <= CURRENT_YEAR
    /\ task' = Append(task, NewTask(type, s, e, clock))
    /\ worker' = Append(worker, NoWorker)
    /\ UNCHANGED <<clock, tasks, rest>>

\* create_task: task = Task(task_type, params); tasks[task.id] = task
create_task(type, s, e) ==
    /\ Len(task) < MaxTasks
    /\ s <= e /\ e <= CURRENT_YEAR
    /\ tasks' = tasks \cup {Len(task) + 1}
    /\ task' = Append(task, NewTask(type, s, e, clock))
    /\ worker' = Append(worker, NoWorker)
    /\ UNCHANGED <<clock, rest>>

\* cleanup_old_tasks, run by one thread from its first statement to its last
cleanup_old_tasks ==
    /\ tasks' = CleanupOldTasks(tasks, task, clock)
    /\ UNCHANGED <<clock, task, worker, rest>>

\* get_recent_tasks(limit), its result kept where the endpoint keeps it
get_recent_tasks(limit) ==
    /\ response' = [status |-> OK, success |-> TRUE, error |-> None,
                    body |-> GetRecentTasks(tasks, task, limit)]
    /\ UNCHANGED <<clock, tasks, task, worker, handler, pipe, files>>

NextRegistry ==
    \/ \E type \in TaskTypes, s \in StartYears, e \in EndYears : create_task(type, s, e)
    \/ cleanup_old_tasks
    \/ \E limit \in Limits : get_recent_tasks(limit)
    \/ recent_tasks
    \/ \E tid \in RequestIds : task_status(tid)
    \/ \E tid \in RequestIds : cancel_task_response(tid)
    \/ \E id \in Ids : task_complete(id, TRUE, None)
    \/ \E d \in TickSteps : Tick(d)

SpecRegistry == Init /\ [][NextRegistry]_vars

(***************************************************************************)
(* One scraping pipeline in detail: the task of one trigger request, its   *)
(* worker, the requests the pipeline sends and the files it writes. The    *)
(* site answers every request in any of the ways the code distinguishes.   *)
(***************************************************************************)
MaxSpan == 4           \* a range starts at most this many years before CURRENT_YEAR
MaxItems == 2          \* length of item_names, the metric pages of one year
MaxRetries == 1        \* answers 403 in a row to one request

\* the task types of the four pipelines
PipeKinds == {"scrape_stats", "scrape_ratings", "scrape_scores", "scrape_trank"}
\* _scrape_generic runs the pipelines of Stats and Ratings
Generic == {"scrape_stats", "scrape_ratings"}
PipeYears == (CURRENT_YEAR - MaxSpan)..CURRENT_YEAR

\* what a request can come to: rows, nothing usable (None or no rows), 403, an
\* exception that leaves the processing of the year
Answers == {"rows", "none", "forbidden", "raise"}

\* the files of a pipeline
FilePrefix(kind) ==
    CASE kind = "scrape_stats" -> "TeamRankingsStats"
      [] kind = "scrape_ratings" -> "TeamRankingsRatings"
      [] kind = "scrape_scores" -> "Scores"
      [] kind = "scrape_trank" -> "TRank"
\* the rows scraped for a year: yearly_games, all_items_for_year, the T-Rank table
YearRows(year) == <<[year |-> year, row |-> 1], [year |-> year, row |-> 2]>>
YearFile(kind, year) == [name |-> FilePrefix(kind), year |-> year, rows |-> YearRows(year)]
AllScores == [name |-> "AllScores", year |-> 0]

\* the locals of a pipeline that has not begun, and what it did so far
NewPipe(kind) ==
    [kind |-> kind,
     item |-> 0,            \* item_index
     rows |-> FALSE,        \* not all_items_for_year.empty / yearly_games
     got |-> FALSE,         \* all_games is not empty
     all_games |-> <<>>,    \* the games of the years so far
     retries |-> 0,         \* attempt
     attempted |-> <<>>,    \* the years whose processing began, in order
     outcome |-> <<>>,      \* how each of them ended: written, empty, failed
     aborted |-> FALSE]     \* an exception left the year loop

\* the state after a trigger view with a valid range returned
InitPipe ==
    /\ clock = 0
    /\ \E kind \in PipeKinds, s \in PipeYears, e \in PipeYears :
          /\ s <= e
          /\ task = <<NewTask(kind, s, e, 0)>>
          /\ pipe = NewPipe(kind)
    /\ tasks = {1}
    /\ worker = <<NewWorker>>
    /\ handler = [h \in Handlers |-> IdleHandler]
    /\ response = [status |-> OK, success |-> TRUE, error |-> None, body |-> <<1>>]
    /\ files = <<>>

\* the year the loop is at
Year(id) == YearsToProcess(task[id])[worker[id].i + 1]

Goto(id, pc) == [worker EXCEPT ![id] = [@ EXCEPT !.pc = pc]]
Raise(id, pc, exc) == [worker EXCEPT ![id] = [@ EXCEPT !.pc = pc, !.exc = exc]]
\* the processing of the year ended: the loop goes on to update_progress
YearEnds(how) == [pipe EXCEPT !.outcome = Append(@, how), !.retries = 0]

\* task = get_task(task_id); years_to_process = [...]; total_years = len(...)
scrape_setup(id) ==
    /\ worker[id].pc = "setup"
    /\ worker' = IF id \notin tasks
                 THEN Raise(id, "raised", NotFoundMessage)
                 ELSE [worker EXCEPT ![id] = [@ EXCEPT !.pc = "loop", !.i = 0]]
    /\ UNCHANGED <<clock, tasks, task, handler, response, pipe, files>>

\* a year loop without the cancellation check
scrape_loop_NoCheck(id) ==
    /\ worker[id].pc = "loop"
    /\ IF worker[id].i >= Len(YearsToProcess(task[id]))
       THEN /\ worker' = Goto(id, IF pipe.kind = "scrape_scores" THEN "finish" ELSE "returned")
            /\ pipe' = pipe
       ELSE /\ worker' = Goto(id, IF pipe.kind = "scrape_scores" THEN "helper" ELSE "end_day")
            /\ pipe' = [pipe EXCEPT !.attempted = Append(@, Year(id)),
                                    !.item = 0, !.rows = FALSE]
    /\ UNCHANGED <<clock, tasks, task, handler, response, files>>

\* for i, year in enumerate(years_to_process): if task and task.cancelled: raise
scrape_loop(id) ==
    /\ worker[id].pc = "loop"
    /\ IF worker[id].i >= Len(YearsToProcess(task[id]))
       THEN /\ worker' = Goto(id, IF pipe.kind = "scrape_scores" THEN "finish" ELSE "returned")
            /\ pipe' = pipe
       ELSE IF task[id].cancelled
       THEN /\ worker' = Goto(id, "raised_cancelled")
            /\ pipe' = pipe
       ELSE /\ worker' = Goto(id, IF pipe.kind = "scrape_scores" THEN "helper" ELSE "end_day")
            /\ pipe' = [pipe EXCEPT !.attempted = Append(@, Year(id)),
                                    !.item = 0, !.rows = FALSE]
    /\ UNCHANGED <<clock, tasks, task, handler, response, files>>

\* end_day = get_end_day(year), outside the try of the year: it returns, or its
\* exception leaves the loop and is raised again as DataScrapingError
scrape_end_day(id, ok) ==
    /\ worker[id].pc = "end_day"
    /\ IF ok
       THEN /\ worker' = Goto(id, IF pipe.kind \in Generic THEN "item" ELSE "get")
            /\ pipe' = pipe
       ELSE /\ worker' = Raise(id, "raised", ScrapeErrorMessage)
            /\ pipe' = [pipe EXCEPT !.aborted = TRUE]
    /\ UNCHANGED <<clock, tasks, task, handler, response, files>>

\* _process_single_year_scores: if task and task.cancelled: raise
scrape_helper(id) ==
    /\ worker[id].pc = "helper"
    /\ worker' = Goto(id, IF task[id].cancelled THEN "raised_cancelled" ELSE "get")
    /\ UNCHANGED <<clock, tasks, task, handler, response, pipe, files>>

\* _process_all_items_for_year: for item_index, item_name in enumerate(item_names):
\* if task and task.cancelled: raise
scrape_item(id) ==
    /\ worker[id].pc = "item"
    /\ worker' = Goto(id, IF pipe.item >= MaxItems THEN "write"
                          ELSE IF task[id].cancelled THEN "raised_cancelled"
                          ELSE "get")
    /\ UNCHANGED <<clock, tasks, task, handler, response, pipe, files>>

\* session.get and the parsing of its answer: _scrape_and_process_item (Stats and
\* Ratings, which try again after a 403), _scrape_year_scores, _process_trank_year
scrape_get(id, answer) ==
    /\ worker[id].pc = "get"
    /\ IF pipe.kind \in Generic
       THEN CASE answer = "forbidden" ->
                   /\ pipe.retries < MaxRetries
                   /\ pipe' = [pipe EXCEPT !.retries = @ + 1]
                   /\ worker' = worker
              [] answer = "rows" ->
                   /\ pipe' = [pipe EXCEPT !.rows = TRUE, !.item = @ + 1, !.retries = 0]
                   /\ worker' = Goto(id, "item")
              [] answer = "none" ->
                   /\ pipe' = [pipe EXCEPT !.item = @ + 1, !.retries = 0]
                   /\ worker' = Goto(id, "item")
              [] answer = "raise" ->
                   /\ pipe' = YearEnds("failed")
                   /\ worker' = Goto(id, "progress")
       ELSE CASE answer = "rows" ->
                   /\ pipe' = [pipe EXCEPT !.rows = TRUE]
                   /\ worker' = Goto(id, "write")
              [] answer = "none" ->
                   /\ pipe.kind = "scrape_scores"
                   /\ pipe' = YearEnds("empty")
                   /\ worker' = Goto(id, "progress")
              [] answer = "raise" ->
                   /\ pipe' = YearEnds("failed")
                   /\ worker' = Goto(id, "progress")
              [] answer = "forbidden" -> FALSE
    /\ UNCHANGED <<clock, tasks, task, handler, response, files>>

\* all_games.extend(yearly_games), in scrape_scores
Extended(id) ==
    IF pipe.kind = "scrape_scores" THEN pipe.all_games \o YearRows(Year(id))
    ELSE pipe.all_games

\* a year whose dataset is never written
scrape_write_Nothing(id, ok) ==
    /\ worker[id].pc = "write"
    /\ ok
    /\ pipe' = YearEnds("empty")
    /\ worker' = Goto(id, "progress")
    /\ UNCHANGED <<clock, tasks, task, handler, response, files>>

\* a year whose dataset is written whether it has rows or not
scrape_write_Always(id, ok) ==
    /\ worker[id].pc = "write"
    /\ ok
    /\ files' = Append(files, YearFile(pipe.kind, Year(id)))
    /\ pipe' = [YearEnds("written") EXCEPT !.got = TRUE]
    /\ worker' = Goto(id, "progress")
    /\ UNCHANGED <<clock, tasks, task, handler, response>>

\* write_df_to_csv of the year's dataset, if it has rows; when the write raises, the
\* year is skipped, but in scrape_scores the write is outside the helper's try and
\* the exception leaves the loop
scrape_write(id, ok) ==
    /\ worker[id].pc = "write"
    /\ IF ~pipe.rows
       THEN /\ ok
            /\ files' = files
            /\ pipe' = YearEnds("empty")
            /\ worker' = Goto(id, "progress")
       ELSE IF ok
       THEN /\ files' = Append(files, YearFile(pipe.kind, Year(id)))
            /\ pipe' = [YearEnds("written") EXCEPT !.got = TRUE,
                                                   !.all_games = Extended(id)]
            /\ worker' = Goto(id, "progress")
       ELSE IF pipe.kind = "scrape_scores"
       THEN /\ files' = files
            /\ pipe' = [pipe EXCEPT !.got = TRUE, !.aborted = TRUE,
                                    !.all_games = Extended(id)]
            /\ worker' = Raise(id, "raised", ScrapeErrorMessage)
       ELSE /\ files' = files
            /\ pipe' = YearEnds("failed")
            /\ worker' = Goto(id, "progress")
    /\ UNCHANGED <<clock, tasks, task, handler, response>>

\* a loop that ends after the first year it attempted
scrape_progress_EndsLoop(id) ==
    /\ worker[id].pc = "progress"
    /\ task' = [task EXCEPT ![id] =
                  UpdateProgress(task[id],
                                 YearProgress(worker[id].i + 1, Len(YearsToProcess(task[id]))))]
    /\ worker' = [worker EXCEPT ![id] =
                    [@ EXCEPT !.pc = "loop", !.i = Len(YearsToProcess(task[id]))]]
    /\ pipe' = [pipe EXCEPT !.item = 0, !.rows = FALSE]
    /\ UNCHANGED <<clock, tasks, handler, response, files>>

\* task.update_progress(int(((i + 1) / total_years) * 100)); the next year
scrape_progress(id) ==
    /\ worker[id].pc = "progress"
    /\ task' = [task EXCEPT ![id] =
                  UpdateProgress(task[id],
                                 YearProgress(worker[id].i + 1, Len(YearsToProcess(task[id]))))]
    /\ worker' = [worker EXCEPT ![id] = [@ EXCEPT !.pc = "loop", !.i = @ + 1]]
    /\ pipe' = [pipe EXCEPT !.item = 0, !.rows = FALSE]
    /\ UNCHANGED <<clock, tasks, handler, response, files>>

\* an AllScores file that holds the games of the last year only
scrape_finish_LastYear(id, ok) ==
    /\ worker[id].pc = "finish"
    /\ IF ~pipe.got
       THEN /\ ok
            /\ files' = files
            /\ pipe' = pipe
            /\ worker' = Goto(id, "returned")
       ELSE IF ok
       THEN /\ files' = Append(files, AllScores @@ [rows |-> YearRows(pipe.attempted[Len(pipe.attempted)])])
            /\ pipe' = pipe
            /\ worker' = Goto(id, "returned")
       ELSE /\ files' = files
            /\ pipe' = [pipe EXCEPT !.aborted = TRUE]
            /\ worker' = Raise(id, "raised", ScrapeErrorMessage)
    /\ UNCHANGED <<clock, tasks, task, handler, response>>

\* scrape_scores after the loop: if not all_games: return; write AllScores.csv
scrape_finish(id, ok) ==
    /\ worker[id].pc = "finish"
    /\ IF ~pipe.got
       THEN /\ ok
            /\ files' = files
            /\ pipe' = pipe
            /\ worker' = Goto(id, "returned")
       ELSE IF ok
       THEN /\ files' = Append(files, AllScores @@ [rows |-> pipe.all_games])
            /\ pipe' = pipe
            /\ worker' = Goto(id, "returned")
       ELSE /\ files' = files
            /\ pipe' = [pipe EXCEPT !.aborted = TRUE]
            /\ worker' = Raise(id, "raised", ScrapeErrorMessage)
    /\ UNCHANGED <<clock, tasks, task, handler, response>>

\* run_task_in_thread.wrapped_func around the pipeline
WrapperStep(id) ==
    \/ worker_check(id)
    \/ worker_start(id)
    \/ worker_returned(id)
    \/ worker_complete(id)
    \/ worker_except_cancelled(id)
    \/ worker_except(id)
    \/ worker_fail(id)

ScrapeStep(id) ==
    \/ scrape_setup(id)
    \/ scrape_loop(id)
    \/ \E ok \in BOOLEAN : scrape_end_day(id, ok)
    \/ scrape_helper(id)
    \/ scrape_item(id)
    \/ \E answer \in Answers : scrape_get(id, answer)
    \/ \E ok \in BOOLEAN : scrape_write(id, ok)
    \/ scrape_progress(id)
    \/ \E ok \in BOOLEAN : scrape_finish(id, ok)

NextPipe ==
    \/ \E id \in Ids : cancel_task_view(id)
    \/ \E id \in Ids : WrapperStep(id)
    \/ \E id \in Ids : ScrapeStep(id)

SpecPipe == InitPipe /\ [][NextPipe]_vars

(***************************************************************************)
(* One task over a long range of years: the progress its pipeline reports  *)
(* year after year.                                                        *)
(***************************************************************************)
LongSpan == 50         \* a long range starts at most this many years before CURRENT_YEAR

InitLong ==
    /\ clock = 0
    /\ \E s \in (CURRENT_YEAR - LongSpan)..CURRENT_YEAR :
          task = <<NewTask("scrape_stats", s, CURRENT_YEAR, 0)>>
    /\ tasks = {1}
    /\ worker = <<NewWorker>>
    /\ handler = [h \in Handlers |-> IdleHandler]
    /\ response = [status |-> OK, success |-> TRUE, error |-> None, body |-> <<1>>]
    /\ pipe = NoPipe
    /\ files = <<>>

NextLong ==
    \/ \E id \in Ids : cancel_task_view(id)
    \/ \E id \in Ids : WorkerStep(id)

SpecLong == InitLong /\ [][NextLong]_vars

(***************************************************************************)
(* The request of one metric page of Stats and Ratings on the wire: the    *)
(* answers of the server, the resends of the session's adapter and the     *)
(* sleeps of _scrape_and_process_item.                                     *)
(***************************************************************************)
MaxForbidden == 2      \* answers 403 to the requests of one page
FetchSpan == 1         \* a range of this specification starts at most this many years back

total == 3
sleep_minutes == 5
FORBIDDEN == 403
NOT_FOUND_PAGE == 404
NoAnswer == 0          \* the request timed out or the connection failed
status_forcelist == {429, 500, 502, 503, 504}
\* what the adapter sends again: Retry counts failed connections and forced statuses
Resendable == status_forcelist \cup {NoAnswer}
Statuses == {OK, FORBIDDEN, NOT_FOUND_PAGE} \cup Resendable
ParseResults == {"rows", "none", "raise"}

\* the locals of _scrape_and_process_item next to those of the pipeline
NewFetch(kind) ==
    NewPipe(kind) @@ [sent |-> 0,      \* answers to the requests of this page
                      resent |-> 0,    \* resends of the adapter within this session.get
                      slept |-> 0]     \* seconds slept for this page

InitFetch ==
    /\ clock = 0
    /\ \E kind \in Generic, s \in (CURRENT_YEAR - FetchSpan)..CURRENT_YEAR,
          e \in (CURRENT_YEAR - FetchSpan)..CURRENT_YEAR :
          /\ s <= e
          /\ task = <<NewTask(kind, s, e, 0)>>
          /\ pipe = NewFetch(kind)
    /\ tasks = {1}
    /\ worker = <<NewWorker>>
    /\ handler = [h \in Handlers |-> IdleHandler]
    /\ response = [status |-> OK, success |-> TRUE, error |-> None, body |-> <<1>>]
    /\ files = <<>>

\* return None: the page gives no column and the next page follows
ItemSkipped ==
    [pipe EXCEPT !.item = @ + 1, !.retries = 0, !.sent = 0, !.resent = 0, !.slept = 0]

\* a request whose 403 is an error like any other
scrape_wire_NoRetry(id, status) ==
    /\ worker[id].pc = "get"
    /\ pipe.kind \in Generic
    /\ IF status = OK
       THEN /\ pipe' = [pipe EXCEPT !.sent = @ + 1]
            /\ worker' = Goto(id, "parse")
       ELSE IF status \in Resendable /\ pipe.resent < total
       THEN /\ pipe' = [pipe EXCEPT !.sent = @ + 1, !.resent = @ + 1]
            /\ worker' = worker
       ELSE /\ pipe' = ItemSkipped
            /\ worker' = Goto(id, "item")
    /\ UNCHANGED <<clock, tasks, task, handler, response, files>>

\* a request whose adapter never sends again
scrape_wire_NoResend(id, status) ==
    /\ worker[id].pc = "get"
    /\ pipe.kind \in Generic
    /\ IF status = OK
       THEN /\ pipe' = [pipe EXCEPT !.sent = @ + 1]
            /\ worker' = Goto(id, "parse")
       ELSE IF status = FORBIDDEN
       THEN /\ pipe.retries < MaxForbidden
            /\ pipe' = [pipe EXCEPT !.sent = @ + 1, !.resent = 0, !.retries = @ + 1,
                                    !.slept = @ + sleep_minutes * 60]
            /\ worker' = worker
       ELSE /\ pipe' = ItemSkipped
            /\ worker' = Goto(id, "item")
    /\ UNCHANGED <<clock, tasks, task, handler, response, files>>

\* while True: response = session.get(url, timeout=REQUEST_TIMEOUT);
\* response.raise_for_status(); break, with the answer of the server to one send:
\* the adapter sends again after a status of status_forcelist or a failed
\* connection until total resends are used up; a 403 sleeps and asks again; any
\* other error returns None
scrape_wire(id, status) ==
    /\ worker[id].pc = "get"
    /\ pipe.kind \in Generic
    /\ IF status = OK
       THEN /\ pipe' = [pipe EXCEPT !.sent = @ + 1]
            /\ worker' = Goto(id, "parse")
       ELSE IF status \in Resendable /\ pipe.resent < total
       THEN /\ pipe' = [pipe EXCEPT !.sent = @ + 1, !.resent = @ + 1]
            /\ worker' = worker
       ELSE IF status = FORBIDDEN
       THEN /\ pipe.retries < MaxForbidden
            /\ pipe' = [pipe EXCEPT !.sent = @ + 1, !.resent = 0, !.retries = @ + 1,
                                    !.slept = @ + sleep_minutes * 60]
            /\ worker' = worker
       ELSE /\ pipe' = ItemSkipped
            /\ worker' = Goto(id, "item")
    /\ UNCHANGED <<clock, tasks, task, handler, response, files>>

\* current_item_df = _parse_and_clean_item_table(response.text, item_ctx, task_id):
\* a table, None, or an exception that leaves the processing of the year
scrape_parse(id, result) ==
    /\ worker[id].pc = "parse"
    /\ CASE result = "rows" ->
              /\ pipe' = [ItemSkipped EXCEPT !.rows = TRUE]
              /\ worker' = Goto(id, "item")
         [] result = "none" ->
              /\ pipe' = ItemSkipped
              /\ worker' = Goto(id, "item")
         [] result = "raise" ->
              /\ pipe' = [YearEnds("failed") EXCEPT !.sent = 0, !.resent = 0, !.slept = 0]
              /\ worker' = Goto(id, "progress")
    /\ UNCHANGED <<clock, tasks, task, handler, response, files>>

FetchStep(id) ==
    \/ scrape_setup(id)
    \/ scrape_loop(id)
    \/ \E ok \in BOOLEAN : scrape_end_day(id, ok)
    \/ scrape_item(id)
    \/ \E status \in Statuses : scrape_wire(id, status)
    \/ \E result \in ParseResults : scrape_parse(id, result)
    \/ \E ok \in BOOLEAN : scrape_write(id, ok)
    \/ scrape_progress(id)

NextFetch ==
    \/ \E id \in Ids : cancel_task_view(id)
    \/ \E id \in Ids : WrapperStep(id)
    \/ \E id \in Ids : FetchStep(id)

SpecFetch == InitFetch /\ [][NextFetch]_vars

(***************************************************************************)
(* The aggregator: the datasets of a year in the store, their outer join   *)
(* on the team name and the Combined dataset.                              *)
(***************************************************************************)
MaxRows == 2           \* rows of a stored dataset
MaxRuns == 2           \* calls of aggregate_year_data for one year

\* a team name as scraped: its text, and whether white space surrounds it
Plain(text) == [pad |-> FALSE, text |-> text]
Padded(text) == [pad |-> TRUE, text |-> text]
TEAM_ALIASES ==
    [c \in {"Michigan St.", "Duke", "UNC"} |->
        CASE c = "Michigan St." -> {"Michigan St.", "Michigan State", "Mich St", "MSU"}
          [] c = "Duke" -> {"Duke"}
          [] c = "UNC" -> {"North Carolina", "UNC", "Tar Heels"}]
\* the texts of the names that occur in the stored datasets, in the order of strings
NameOrder == <<"Duke", "Gonzaga", "MSU", "Michigan St.">>
TeamNames == {Plain(NameOrder[n]) : n \in DOMAIN NameOrder} \cup {Padded("Duke")}
\* the place of a name among the strings: white space comes before every letter
Rank(name) ==
    (IF name.pad THEN 0 ELSE Len(NameOrder))
        + (CHOOSE n \in DOMAIN NameOrder : NameOrder[n] = name.text)

\* for canonical, aliases in TEAM_ALIASES.items(): if team_name.strip() in aliases:
\* return canonical; return team_name.strip()
standardize_team_name(team_name) ==
    IF \E c \in DOMAIN TEAM_ALIASES : team_name.text \in TEAM_ALIASES[c]
    THEN Plain(CHOOSE c \in DOMAIN TEAM_ALIASES : team_name.text \in TEAM_ALIASES[c])
    ELSE Plain(team_name.text)

\* the three datasets aggregate_year_data reads, in the order it reads them
Sources == <<"TRank", "TeamRankingsRatings", "TeamRankingsStats">>
\* the name of the column of team names: scrape_trank writes T_RANK_RATING_NAMES,
\* the Stats and Ratings pipelines write "Team"
KeyColumn == "Team"
KeyColumns(source) == IF source = "TRank" THEN {"TEAM", "Team"} ELSE {"Team"}

\* the names a source can hold: _parse_and_clean_item_table strips the names of
\* Stats and Ratings, _process_trank_year keeps the names as they come
NamesOf(source) == IF source = "TRank" THEN TeamNames ELSE {n \in TeamNames : ~n.pad}

\* the rows of a dataset of one source: a team name and the source's columns
RECURSIVE RowsOf(_, _)
RowsOf(source, names) ==
    IF names = {} THEN <<>>
    ELSE LET first == CHOOSE n \in names : \A m \in names : Rank(n) <= Rank(m)
         IN  <<[Team |-> first, from |-> {source}]>> \o RowsOf(source, names \ {first})
Dataset(source, year, key, names) ==
    [name |-> source, year |-> year, key |-> key, rows |-> RowsOf(source, names)]
\* the datasets a store can hold under the name of a source
Datasets(source, year) ==
    {Dataset(source, year, key, names) :
        key \in KeyColumns(source),
        names \in {S \in SUBSET NamesOf(source) : Cardinality(S) <= MaxRows}}

\* pd.read_csv of the file of that name: the dataset written last
Stored(store, name, year) ==
    \E l \in DOMAIN store : store[l].name = name /\ store[l].year = year
read_df_from_csv(store, name, year) ==
    store[CHOOSE l \in DOMAIN store :
            /\ store[l].name = name /\ store[l].year = year
            /\ \A m \in DOMAIN store :
                  (store[m].name = name /\ store[m].year = year) => m <= l]

Keys(rows) == {rows[n].Team : n \in DOMAIN rows}
WithKey(rows, key) == SelectSeq(rows, LAMBDA row : row.Team = key)
\* the rows an outer join gives for one key: every pair of a left and a right row,
\* or the rows of the one side that has the key
Joined(left, right, key) ==
    LET ls == WithKey(left, key)
        rs == WithKey(right, key)
    IN  IF rs = <<>> THEN ls
        ELSE IF ls = <<>> THEN rs
        ELSE [n \in 1..(Len(ls) * Len(rs)) |->
                [Team |-> key,
                 from |-> ls[((n - 1) \div Len(rs)) + 1].from
                            \cup rs[((n - 1) % Len(rs)) + 1].from]]
RECURSIVE MergeKeys(_, _, _)
MergeKeys(left, right, keys) ==
    IF keys = {} THEN <<>>
    ELSE LET first == CHOOSE k \in keys : \A m \in keys : Rank(k) <= Rank(m)
         IN  Joined(left, right, first) \o MergeKeys(left, right, keys \ {first})
\* pd.merge(left, right, on="Team", how="outer"): the keys of both sides, sorted
merge(left, right) == MergeKeys(left, right, Keys(left) \cup Keys(right))

\* combined["Team"] = combined["Team"].apply(standardize_team_name)
Standardized(rows) ==
    [n \in DOMAIN rows |-> [rows[n] EXCEPT !.Team = standardize_team_name(@)]]

NoData == <<>>
Raised(exc, file, year) ==
    [exc |-> exc, message |-> [file |-> file, year |-> year], combined |-> NoData]

\* an aggregation that joins on the names of the T-Rank dataset only
AggregateYearData_LeftJoin(store, year) ==
    LET present == \A n \in DOMAIN Sources : Stored(store, Sources[n], year)
        df(n) == read_df_from_csv(store, Sources[n], year)
    IN  IF ~present \/ \E n \in DOMAIN Sources : df(n).rows = <<>> \/ df(n).key # KeyColumn
        THEN Raised("MissingDatasetError", "TRank", year)
        ELSE [exc |-> None, message |-> <<>>,
              combined |->
                 Standardized(SelectSeq(merge(merge(df(1).rows, df(2).rows), df(3).rows),
                                        LAMBDA row : row.Team \in Keys(df(1).rows)))]

\* aggregate_year_data up to the write: each file is read and checked in turn
\* (pd.read_csv raises FileNotFoundError for a file that is not there), then the
\* two joins on "Team" (KeyError when a side has no such column), then the names
\* are standardized
AggregateYearData(store, year) ==
    LET df(n) == read_df_from_csv(store, Sources[n], year)
        Fails(n) == ~Stored(store, Sources[n], year) \/ df(n).rows = <<>>
    IN  IF \E n \in DOMAIN Sources : Fails(n)
        THEN LET n == CHOOSE k \in DOMAIN Sources :
                         Fails(k) /\ \A m \in 1..(k - 1) : ~Fails(m)
             IN  Raised(IF Stored(store, Sources[n], year)
                        THEN "MissingDatasetError" ELSE "FileNotFoundError",
                        Sources[n], year)
        ELSE IF \E n \in DOMAIN Sources : df(n).key # KeyColumn
        THEN Raised("KeyError", KeyColumn, year)
        ELSE [exc |-> None, message |-> <<>>,
              combined |-> Standardized(merge(merge(df(1).rows, df(2).rows), df(3).rows))]

\* a Combined dataset written over the T-Rank dataset of the year
Combined_OverInput(year, rows) ==
    [name |-> "TRank", year |-> year, key |-> KeyColumn, rows |-> rows]

\* write_df_to_csv(combined, f"Combined{year}.csv")
Combined(year, rows) == [name |-> "Combined", year |-> year, key |-> KeyColumn, rows |-> rows]

\* what a caller of the aggregator holds: the year it is at, the last year of its
\* range, the exception that reached it and the dataset returned last
NewAggregation(start_year, end_year) ==
    [kind |-> "aggregate", pc |-> "loop", year |-> start_year,
     start_year |-> start_year, end_year |-> end_year, exc |-> None, message |-> <<>>, returned |-> NoData, calls |-> 0]

\* the stores of one year: under each source no file or one of its datasets
YearStores(year) ==
    {SelectSeq(<<t, r, s>>, LAMBDA d : d.key # "absent") :
        t \in Datasets(Sources[1], year) \cup {[key |-> "absent"]},
        r \in Datasets(Sources[2], year) \cup {[key |-> "absent"]},
        s \in Datasets(Sources[3], year) \cup {[key |-> "absent"]}}

InitAggregate ==
    /\ clock = 0
    /\ tasks = {}
    /\ task = <<>>
    /\ worker = <<>>
    /\ handler = [h \in Handlers |-> IdleHandler]
    /\ response = NoResponse
    /\ pipe = NewAggregation(CURRENT_YEAR, CURRENT_YEAR)
    /\ files \in YearStores(CURRENT_YEAR)

\* aggregate_year_data(year): the Combined file is written when nothing was raised
aggregate_year_data(year) ==
    /\ pipe.calls < MaxRuns
    /\ LET result == AggregateYearData(files, year)
       IN  /\ files' = IF result.exc = None
                       THEN Append(files, Combined(year, result.combined))
                       ELSE files
           /\ pipe' = [pipe EXCEPT !.exc = result.exc, !.message = result.message,
                                   !.returned = result.combined, !.calls = @ + 1]
    /\ UNCHANGED <<clock, tasks, task, worker, handler, response>>

NextAggregate == aggregate_year_data(CURRENT_YEAR)

SpecAggregate == InitAggregate /\ [][NextAggregate]_vars

(***************************************************************************)
(* The aggregation of a range of years.                                    *)
(***************************************************************************)
AggSpan == 2           \* a range to aggregate starts at most this many years back

AggYears == (CURRENT_YEAR - AggSpan)..CURRENT_YEAR
\* a dataset of one row with the column of team names the aggregator reads
OneRow(source, year) == Dataset(source, year, KeyColumn, {Plain("Duke")})
\* the stores of one year of a range: the three datasets; T-Rank missing; T-Rank
\* as scrape_trank writes it; Ratings without rows; Stats missing; no file at all
RangeStores(year) ==
    <<<<OneRow(Sources[1], year), OneRow(Sources[2], year), OneRow(Sources[3], year)>>,
      <<OneRow(Sources[2], year), OneRow(Sources[3], year)>>,
      <<Dataset(Sources[1], year, "TEAM", {Plain("Duke")}),
        OneRow(Sources[2], year), OneRow(Sources[3], year)>>,
      <<OneRow(Sources[1], year), Dataset(Sources[2], year, KeyColumn, {}),
        OneRow(Sources[3], year)>>,
      <<OneRow(Sources[1], year), OneRow(Sources[2], year)>>,
      <<>>>>
\* the store of all years, one year after the other
RECURSIVE Flatten(_, _)
Flatten(which, year) ==
    IF year > CURRENT_YEAR THEN <<>>
    ELSE RangeStores(year)[which[year]] \o Flatten(which, year + 1)

InitRange ==
    /\ clock = 0
    /\ tasks = {}
    /\ task = <<>>
    /\ worker = <<>>
    /\ handler = [h \in Handlers |-> IdleHandler]
    /\ response = NoResponse
    /\ \E start_year \in AggYears, end_year \in AggYears :
          /\ start_year <= end_year
          /\ pipe = NewAggregation(start_year, end_year)
    /\ \E which \in [AggYears -> DOMAIN RangeStores(CURRENT_YEAR)] :
          files = Flatten(which, CURRENT_YEAR - AggSpan)

\* a loop that goes on to the next year after a year that failed
aggregate_all_years_GoesOn ==
    /\ pipe.pc = "loop"
    /\ IF pipe.year > pipe.end_year
       THEN /\ pipe' = [pipe EXCEPT !.pc = "returned"]
            /\ files' = files
       ELSE LET result == AggregateYearData(files, pipe.year)
            IN  /\ files' = IF result.exc = None
                            THEN Append(files, Combined(pipe.year, result.combined))
                            ELSE files
                /\ pipe' = [pipe EXCEPT !.year = @ + 1, !.calls = @ + 1,
                                        !.returned = result.combined]
    /\ UNCHANGED <<clock, tasks, task, worker, handler, response>>

\* for year in range(start_year, end_year + 1): aggregate_year_data(year), one
\* year per step; except MissingDatasetError: raise, and any other exception
\* leaves the loop as well
aggregate_all_years ==
    /\ pipe.pc = "loop"
    /\ IF pipe.year > pipe.end_year
       THEN /\ pipe' = [pipe EXCEPT !.pc = "returned"]
            /\ files' = files
       ELSE LET result == AggregateYearData(files, pipe.year)
            IN  IF result.exc = None
                THEN /\ files' = Append(files, Combined(pipe.year, result.combined))
                     /\ pipe' = [pipe EXCEPT !.year = @ + 1, !.calls = @ + 1,
                                             !.returned = result.combined]
                ELSE /\ files' = files
                     /\ pipe' = [pipe EXCEPT !.pc = "raised", !.calls = @ + 1,
                                             !.exc = result.exc,
                                             !.message = result.message]
    /\ UNCHANGED <<clock, tasks, task, worker, handler, response>>

NextRange == aggregate_all_years

SpecRange == InitRange /\ [][NextRange]_vars

(***************************************************************************)
(* The trigger views with the year parameters as they arrive: strings of   *)
(* the query, integers of the path.                                        *)
(***************************************************************************)
BAD_REQUEST == 400
InvalidStartMessage == "Invalid year format for start_year."
InvalidEndMessage == "Invalid year format for end_year."
StartAfterEndMessage == "Start year cannot be after end year."
EndAfterCurrentMessage == "End year cannot be after current year."

Digit == <<"0", "1", "2", "3", "4", "5", "6", "7", "8", "9">>
IsDigit(c) == \E d \in DOMAIN Digit : Digit[d] = c
DigitValue(c) == (CHOOSE d \in DOMAIN Digit : Digit[d] = c) - 1
\* str(n) of a year
RECURSIVE Decimal(_)
Decimal(n) == IF n < 10 THEN <<Digit[n + 1]>> ELSE Decimal(n \div 10) \o <<Digit[(n % 10) + 1]>>
\* int(value) raises ValueError unless the text is a number
IsNumber(text) == text # <<>> /\ \A n \in DOMAIN text : IsDigit(text[n])
RECURSIVE ParseInt(_)
ParseInt(text) ==
    IF text = <<>> THEN 0
    ELSE 10 * ParseInt(SubSeq(text, 1, Len(text) - 1)) + DigitValue(text[Len(text)])

\* the years of the requests: before, at and after the current year
TriggerYears == {CURRENT_YEAR - 1, CURRENT_YEAR, CURRENT_YEAR + 1}
\* request.GET.get(name): None, or the text of the parameter
NoQuery == [given |-> FALSE, text |-> <<>>]
Query(text) == [given |-> TRUE, text |-> text]
QueryValues ==
    {NoQuery, Query(<<>>), Query(<<"2", "0", "x", "1">>)}
        \cup {Query(Decimal(y)) : y \in TriggerYears \ {CURRENT_YEAR}}
\* the year of the path: None, or the integer of the URL
NoPath == [given |-> FALSE, value |-> 0]
Path(year) == [given |-> TRUE, value |-> year]
PathValues == {NoPath, Path(CURRENT_YEAR - 1)}

\* if year_str: _parse_year_param(year_str, name); elif path_year is not None:
\* int(path_year); else: current_year
YearParam(query, path) ==
    IF query.given /\ query.text # <<>>
    THEN IF IsNumber(query.text)
         THEN [error |-> FALSE, year |-> ParseInt(query.text)]
         ELSE [error |-> TRUE, year |-> 0]
    ELSE IF path.given THEN [error |-> FALSE, year |-> path.value]
    ELSE [error |-> FALSE, year |-> CURRENT_YEAR]

\* _determine_year_range
determine_year_range(qs, qe, ps, pe) ==
    LET start == YearParam(qs, ps)
        end == YearParam(qe, pe)
    IN  IF start.error THEN [error |-> InvalidStartMessage, start_year |-> 0, end_year |-> 0]
        ELSE IF end.error THEN [error |-> InvalidEndMessage, start_year |-> 0, end_year |-> 0]
        ELSE IF start.year > end.year
        THEN [error |-> StartAfterEndMessage, start_year |-> 0, end_year |-> 0]
        ELSE IF end.year > CURRENT_YEAR
        THEN [error |-> EndAfterCurrentMessage, start_year |-> 0, end_year |-> 0]
        ELSE [error |-> None, start_year |-> start.year, end_year |-> end.year]

\* the request thread with the parameters of the request it serves
Serving(qs, qe, ps, pe) ==
    IdleHandler @@ [start_year |-> qs, end_year |-> qe,
                    path_start_year |-> ps, path_end_year |-> pe]

\* the registry is empty, or holds one task that has ended at the instant 0 and
\* whose thread is gone
InitTrigger ==
    /\ clock = 0
    /\ \/ /\ task = <<>>
          /\ tasks = {}
          /\ worker = <<>>
       \/ /\ task = <<Complete(Start(NewTask("scrape_stats", CURRENT_YEAR, CURRENT_YEAR, 0), 0),
                               TRUE, None, 0)>>
          /\ tasks = {1}
          /\ worker = <<EndWorker>>
    /\ handler = [h \in Handlers |-> IdleHandler]
    /\ response = NoResponse
    /\ pipe = NoPipe
    /\ files = <<>>

\* a trigger view that sweeps before it looks at the years
trigger_view_SweepsFirst(type, qs, qe, ps, pe) ==
    LET range == determine_year_range(qs, qe, ps, pe)
        id == Len(task) + 1
    IN  IF range.error # None
        THEN /\ response' = [status |-> BAD_REQUEST, success |-> FALSE,
                             error |-> range.error, body |-> <<>>]
             /\ tasks' = CleanupOldTasks(tasks, task, clock)
             /\ handler' = [handler EXCEPT !["h1"] = Serving(qs, qe, ps, pe)]
             /\ UNCHANGED <<clock, task, worker, pipe, files>>
        ELSE /\ Len(task) < MaxTasks
             /\ Cardinality({t \in Ids : worker[t].pc # "done"}) < MaxActive
             /\ tasks' = CleanupOldTasks(tasks, task, clock) \cup {id}
             /\ task' = Append(task, NewTask(type, range.start_year, range.end_year, clock))
             /\ worker' = Append(worker, NewWorker)
             /\ response' = [status |-> OK, success |-> TRUE, error |-> None, body |-> <<id>>]
             /\ handler' = [handler EXCEPT !["h1"] = Serving(qs, qe, ps, pe)]
             /\ UNCHANGED <<clock, pipe, files>>

\* scrape_all, scrape_stats_view, scrape_ratings_view, scrape_scores_view up to the
\* response: _determine_year_range, cleanup_old_tasks, create_task,
\* run_task_in_thread; except ValueError: 400
trigger_view(type, qs, qe, ps, pe) ==
    LET range == determine_year_range(qs, qe, ps, pe)
        id == Len(task) + 1
    IN  IF range.error # None
        THEN /\ response' = [status |-> BAD_REQUEST, success |-> FALSE,
                             error |-> range.error, body |-> <<>>]
             /\ handler' = [handler EXCEPT !["h1"] = Serving(qs, qe, ps, pe)]
             /\ UNCHANGED <<clock, tasks, task, worker, pipe, files>>
        ELSE /\ Len(task) < MaxTasks
             /\ Cardinality({t \in Ids : worker[t].pc # "done"}) < MaxActive
             /\ tasks' = CleanupOldTasks(tasks, task, clock) \cup {id}
             /\ task' = Append(task, NewTask(type, range.start_year, range.end_year, clock))
             /\ worker' = Append(worker, NewWorker)
             /\ response' = [status |-> OK, success |-> TRUE, error |-> None, body |-> <<id>>]
             /\ handler' = [handler EXCEPT !["h1"] = Serving(qs, qe, ps, pe)]
             /\ UNCHANGED <<clock, pipe, files>>

NextTrigger ==
    \/ \E type \in TaskTypes, qs \in QueryValues, qe \in QueryValues,
          ps \in PathValues, pe \in PathValues : trigger_view(type, qs, qe, ps, pe)
    \/ Tick(RetentionSeconds + 1)

SpecTrigger == InitTrigger /\ [][NextTrigger]_vars

(***************************************************************************)
(* scrape_all: _run_all_scraping_task and _scrape_single_year (views.py)   *)
(***************************************************************************)
\* how many years before CURRENT_YEAR a scrape_all range can begin
AllSpan == 2
AllYears == (CURRENT_YEAR - AllSpan)..CURRENT_YEAR

\* operations = [("Stats", scrape_stats), ("Ratings", scrape_ratings)]
operations == <<"scrape_stats", "scrape_ratings">>
\* total_operations = num_years * operations_per_year
TotalOperations(t) == Len(YearsToProcess(t)) * Len(operations)
\* the year and the operation the loops are at after operations_done operations
YearAt(t, operations_done) == YearsToProcess(t)[(operations_done \div Len(operations)) + 1]
OperationAt(operations_done) == operations[(operations_done % Len(operations)) + 1]

\* scrape_func(year, end_year): the years the called pipeline goes through
ScrapedYears(year, end_year) == YearsFrom(year, end_year)
\* the files the pipeline writes for the first n of them
WrittenBy(kind, years, n) == [k \in 1..n |-> YearFile(kind, years[k])]

InitAll ==
    /\ clock = 0
    /\ \E s \in AllYears, e \in AllYears :
          /\ s <= e
          /\ task = <<NewTask("scrape_all", s, e, 0)>>
    /\ tasks = {1}
    /\ worker = <<NewWorker>>
    /\ handler = [h \in Handlers |-> IdleHandler]
    /\ response = [status |-> OK, success |-> TRUE, error |-> None, body |-> <<1>>]
    /\ pipe = NoPipe
    /\ files = <<>>

\* task = get_task(task_id); years_to_process; if total_operations == 0: return;
\* except TaskNotFoundError: log only
all_setup(id) ==
    /\ worker[id].pc = "setup"
    /\ task[id].task_type = "scrape_all"
    /\ worker' = [worker EXCEPT ![id] =
                    IF id \notin tasks \/ TotalOperations(task[id]) = 0
                    THEN [@ EXCEPT !.pc = "returned"]
                    ELSE [@ EXCEPT !.pc = "all_year", !.i = 0]]
    /\ UNCHANGED <<clock, tasks, task, rest>>

\* for year in years_to_process: if task.cancelled: raise TaskCancelledError, which
\* _run_all_scraping_task catches and logs, so that the function returns
all_year(id) ==
    /\ worker[id].pc = "all_year"
    /\ worker' = [worker EXCEPT ![id] =
                    IF worker[id].i >= TotalOperations(task[id]) \/ task[id].cancelled
                    THEN [@ EXCEPT !.pc = "returned"]
                    ELSE [@ EXCEPT !.pc = "all_op"]]
    /\ UNCHANGED <<clock, tasks, task, rest>>

\* for op_name, scrape_func in operations: if task.cancelled: raise TaskCancelledError
all_op(id) ==
    /\ worker[id].pc = "all_op"
    /\ worker' = [worker EXCEPT ![id] =
                    IF task[id].cancelled
                    THEN [@ EXCEPT !.pc = "returned"]
                    ELSE [@ EXCEPT !.pc = "all_scrape"]]
    /\ UNCHANGED <<clock, tasks, task, rest>>

\* scrape_func(year): the pipeline is called with the year alone, so that its
\* end_year is CURRENT_YEAR and its task_id is None: it goes through every year from
\* `year` on, stops at a year that fails (DataScrapingError, re-raised) and writes
\* the file of each of the n years it completed with rows. Then operations_done += 1
\* and task.update_progress(int((operations_done / total_operations) * 100))
all_scrape(id, n, ok) ==
    LET t == task[id]
        done == worker[id].i
        years == ScrapedYears(YearAt(t, done), CURRENT_YEAR)
    IN /\ worker[id].pc = "all_scrape"
       /\ n \in 0..Len(years)
       /\ ~ok => n < Len(years)
       /\ files' = files \o WrittenBy(OperationAt(done), years, n)
       /\ IF ok
          THEN /\ task' = [task EXCEPT ![id] =
                             UpdateProgress(t, YearProgress(done + 1, TotalOperations(t)))]
               /\ worker' = [worker EXCEPT ![id] =
                               [@ EXCEPT !.i = done + 1,
                                         !.pc = IF (done + 1) % Len(operations) = 0
                                                THEN "all_year" ELSE "all_op"]]
          ELSE /\ task' = task
               /\ worker' = [worker EXCEPT ![id] =
                               [@ EXCEPT !.pc = "raised", !.exc = ScrapeErrorMessage]]
       /\ UNCHANGED <<clock, tasks, handler, response, pipe>>

AllStep(id) ==
    \/ all_setup(id)
    \/ all_year(id)
    \/ all_op(id)
    \/ \E n \in 0..(AllSpan + 1), ok \in BOOLEAN : all_scrape(id, n, ok)

NextAll ==
    \/ \E id \in Ids : cancel_task_view(id)
    \/ \E id \in Ids : WrapperStep(id)
    \/ \E id \in Ids : AllStep(id)

SpecAll == InitAll /\ [][NextAll]_vars

(***************************************************************************)
(* One task, its worker, and the requests of other threads about it        *)
(***************************************************************************)
InitFrame ==
    /\ clock = 0
    /\ \E type \in {"scrape_stats", "scrape_all"}, s \in AllYears, e \in AllYears :
          /\ s <= e
          /\ task = <<NewTask(type, s, e, 0)>>
    /\ tasks = {1}
    /\ worker = <<NewWorker>>
    /\ handler = [h \in Handlers |-> IdleHandler]
    /\ response = [status |-> OK, success |-> TRUE, error |-> None, body |-> <<1>>]
    /\ pipe = NoPipe
    /\ files = <<>>

\* the steps of the thread that runs the task: the wrapper, and the function the
\* trigger view handed to it
OwnWorker(id) ==
    \/ WrapperStep(id)
    \/ /\ task[id].task_type # "scrape_all"
       /\ \/ pipeline_setup(id)
          \/ pipeline_year(id)
          \/ pipeline_work_cancelled(id)
          \/ pipeline_work_error(id)
          \/ pipeline_progress(id)
    \/ all_setup(id)
    \/ all_year(id)
    \/ all_op(id)
    \/ \E ok \in BOOLEAN : all_scrape(id, 0, ok)

NextFrame ==
    \/ \E id \in Ids : OwnWorker(id)
    \/ \E tid \in RequestIds : cancel_task_response(tid)
    \/ \E tid \in RequestIds : task_status(tid)
    \/ recent_tasks
    \/ cleanup_old_tasks
    \/ \E d \in TickSteps : Tick(d)

SpecFrame == InitFrame /\ [][NextFrame]_vars

\* the thread of a task is scheduled again and again until it ends; nothing is
\* assumed of the requests of the other threads
SpecFair == SpecFrame /\ WF_vars(\E id \in Ids : OwnWorker(id))

(***************************************************************************)
(* The metrics of one year: _process_single_year_generic (tr_scraper.py)   *)
(***************************************************************************)
\* the teams a metric page can list
ItemTeams == {"Duke", "Gonzaga"}
\* item_config.item_names, by position
ItemNames == 1..MaxItems

\* pd.DataFrame(): no column and no row
EmptyFrame == [columns |-> <<>>, teams |-> {}]
\* the frame _parse_and_clean_item_table returns: the column Team and the column of
\* the metric, one row per listed team
ItemFrame(item_name, teams) == [columns |-> <<item_name>>, teams |-> teams]
\* DataFrame.empty: the frame has no row
IsEmpty(df) == df.teams = {}
\* pd.merge(left, right, on="Team", how="outer")
MergeOuter(left, right) ==
    [columns |-> left.columns \o right.columns, teams |-> left.teams \cup right.teams]

\* what process_item_func returns for a metric: None (request failed, no table,
\* columns missing), or the frame of the page, which has no row when the table has
\* none or when no row has a team name
NoFrame == [none |-> TRUE]
PageResults(item_name) ==
    {NoFrame} \cup {ItemFrame(item_name, teams) : teams \in SUBSET ItemTeams}

\* if current_item_df is not None: all_items_for_year = current_item_df if
\* all_items_for_year.empty else pd.merge(..., on="Team", how="outer")
Merged(all_items_for_year, current_item_df) ==
    IF current_item_df = NoFrame THEN all_items_for_year
    ELSE IF IsEmpty(all_items_for_year) THEN current_item_df
    ELSE MergeOuter(all_items_for_year, current_item_df)

ItemsFile(kind, year, df) ==
    [name |-> FilePrefix(kind), year |-> year, columns |-> df.columns, teams |-> df.teams]

NewItems(kind, pages) ==
    [kind |-> kind,
     pc |-> "check",
     item_index |-> 1,
     pages |-> pages,                  \* what each request of the year will come to
     all_items_for_year |-> EmptyFrame]

\* a running task of one year whose pipeline is at the first metric of the year
InitItems ==
    /\ clock = 0
    /\ \E kind \in Generic :
          /\ task = <<Start(NewTask(kind, CURRENT_YEAR, CURRENT_YEAR, 0), 0)>>
          /\ \E pages \in [ItemNames -> UNION {PageResults(n) : n \in ItemNames}] :
                /\ \A n \in ItemNames : pages[n] \in PageResults(n)
                /\ pipe = NewItems(kind, pages)
    /\ tasks = {1}
    /\ worker = <<[NewWorker EXCEPT !.pc = "work"]>>
    /\ handler = [h \in Handlers |-> IdleHandler]
    /\ response = [status |-> OK, success |-> TRUE, error |-> None, body |-> <<1>>]
    /\ files = <<>>

\* for item_index, item_name in enumerate(item_names): if task and task.cancelled:
\* raise TaskCancelledError
items_check(id) ==
    /\ pipe.pc = "check"
    /\ pipe' = [pipe EXCEPT !.pc = IF pipe.item_index > MaxItems THEN "write"
                                   ELSE IF task[id].cancelled THEN "raised_cancelled"
                                   ELSE "request"]
    /\ UNCHANGED <<clock, tasks, task, worker, handler, response, files>>

\* current_item_df = process_item_func(...), merged into all_items_for_year
items_merge(id) ==
    /\ pipe.pc = "request"
    /\ pipe' = [pipe EXCEPT !.all_items_for_year = Merged(@, pipe.pages[pipe.item_index]),
                            !.item_index = @ + 1,
                            !.pc = "check"]
    /\ UNCHANGED <<clock, tasks, task, worker, handler, response, files>>

\* if not all_items_for_year.empty: write_df_to_csv(...); return True; else: return
\* False. An exception of the write leaves the year as DataScrapingError
items_write(id, ok) ==
    /\ pipe.pc = "write"
    /\ IF IsEmpty(pipe.all_items_for_year)
       THEN /\ ok
            /\ files' = files
            /\ pipe' = [pipe EXCEPT !.pc = "returned"]
       ELSE IF ok
       THEN /\ files' = Append(files, ItemsFile(pipe.kind, Year(id), pipe.all_items_for_year))
            /\ pipe' = [pipe EXCEPT !.pc = "returned"]
       ELSE /\ files' = files
            /\ pipe' = [pipe EXCEPT !.pc = "raised"]
    /\ UNCHANGED <<clock, tasks, task, worker, handler, response>>

NextItems ==
    \/ \E id \in Ids : cancel_task_view(id)
    \/ \E id \in Ids : items_check(id)
    \/ \E id \in Ids : items_merge(id)
    \/ \E id \in Ids, ok \in BOOLEAN : items_write(id, ok)

SpecItems == InitItems /\ [][NextItems]_vars

(***************************************************************************)
(* The parsers of the scores pages (scores_scraper.py)                     *)
(***************************************************************************)
\* how many child elements a team node or a game node has at most, and how many
\* round containers a bracket
MaxChildren == 3
MaxRounds == 3

\* str.strip() of a text, a text being the sequence of its characters
RECURSIVE LStrip(_)
LStrip(text) == IF text # <<>> /\ Head(text) = " " THEN LStrip(Tail(text)) ELSE text
RECURSIVE RStrip(_)
RStrip(text) ==
    IF text # <<>> /\ text[Len(text)] = " " THEN RStrip(SubSeq(text, 1, Len(text) - 1)) ELSE text
Strip(text) == RStrip(LStrip(text))
\* str.startswith(prefix)
StartsWith(text, prefix) ==
    Len(text) >= Len(prefix) /\ SubSeq(text, 1, Len(prefix)) = prefix

\* the values of a parsed field: None, an integer, a text
NoValue == [kind |-> "none"]
IntValue(n) == [kind |-> "int", value |-> n]
TextValue(text) == [kind |-> "str", value |-> text]

\* an element of the page: its classes, the texts of its child elements
\* (get_text()), and the text of the first link below it, if there is one
NoLink == [found |-> FALSE, text |-> <<>>]
Link(text) == [found |-> TRUE, text |-> text]
Node(classes, children, link) == [classes |-> classes, children |-> children, link |-> link]

\* int(text) if text else None, the text kept when int() raises ValueError
Converted(text) ==
    IF text = <<>> THEN NoValue
    ELSE IF IsNumber(text) THEN IntValue(ParseInt(text))
    ELSE TextValue(text)

NoTeam == [none |-> TRUE]

\* a team parser that insists on a score
parse_team_NeedsScore(team_node) ==
    LET team_children == team_node.children
        name == Strip(team_children[2])
    IN IF Len(team_children) < 3 THEN NoTeam
       ELSE IF name = <<>> THEN NoTeam
       ELSE [seed |-> Converted(Strip(team_children[1])),
             name |-> name,
             score |-> Converted(Strip(team_children[3])),
             won |-> "winner" \in team_node.classes]

\* _parse_team
parse_team(team_node) ==
    LET team_children == team_node.children
        name == Strip(team_children[2])
    IN IF Len(team_children) < 2 THEN NoTeam
       ELSE IF name = <<>> THEN NoTeam
       ELSE [seed |-> Converted(Strip(team_children[1])),
             name |-> name,
             score |-> IF Len(team_children) >= 3
                       THEN Converted(Strip(team_children[3]))
                       ELSE NoValue,
             won |-> "winner" \in team_node.classes]

NoGame == [none |-> TRUE]
AtPrefix == <<"a", "t", " ">>

\* location_link = game_children[2].find("a"); the text behind "at ", stripped
Location(node) ==
    IF node.link.found /\ StartsWith(node.link.text, AtPrefix)
    THEN TextValue(Strip(SubSeq(node.link.text, Len(AtPrefix) + 1, Len(node.link.text))))
    ELSE NoValue

\* a game parser that gives up on a location it does not understand
parse_game_StrictLocation(year, bracket_id, round_number, game_node) ==
    LET game_children == game_node.children
        team_a == parse_team(game_children[1])
        team_b == parse_team(game_children[2])
    IN IF Len(game_children) < 2 THEN NoGame
       ELSE IF team_a = NoTeam \/ team_b = NoTeam THEN NoGame
       ELSE IF Len(game_children) >= 3 /\ Location(game_children[3]) = NoValue THEN NoGame
       ELSE [year |-> year, bracket |-> bracket_id, round |-> round_number,
             team_a |-> team_a, team_b |-> team_b,
             location |-> IF Len(game_children) >= 3
                          THEN Location(game_children[3])
                          ELSE NoValue]

\* _parse_game
parse_game(year, bracket_id, round_number, game_node) ==
    LET game_children == game_node.children
        team_a == parse_team(game_children[1])
        team_b == parse_team(game_children[2])
    IN IF Len(game_children) < 2 THEN NoGame
       ELSE IF team_a = NoTeam \/ team_b = NoTeam THEN NoGame
       ELSE [year |-> year, bracket |-> bracket_id, round |-> round_number,
             team_a |-> team_a, team_b |-> team_b,
             location |-> IF Len(game_children) >= 3
                          THEN Location(game_children[3])
                          ELSE NoValue]

\* the games of the game nodes of one round container, in the order of the page:
\* a node without child elements is skipped, and so is a node that gives no game
RECURSIVE RoundGames(_, _, _, _)
RoundGames(year, bracket_id, round_num, game_nodes) ==
    IF game_nodes = <<>> THEN <<>>
    ELSE LET game_node == Head(game_nodes)
             game == parse_game(year, bracket_id, round_num, game_node)
         IN (IF game_node.children # <<>> /\ game # NoGame THEN <<game>> ELSE <<>>)
                \o RoundGames(year, bracket_id, round_num, Tail(game_nodes))

\* bracket_child.get("id", "unknown_bracket")
NoId == "None"
BracketId(bracket_child) == IF bracket_child.id = NoId THEN "unknown_bracket" ELSE bracket_child.id

\* a bracket parser that counts only the rounds that gave a game
RECURSIVE BracketGames_CountsGames(_, _, _, _)
BracketGames_CountsGames(year, bracket_id, round_num, bracket_rounds) ==
    IF bracket_rounds = <<>> THEN <<>>
    ELSE LET games == RoundGames(year, bracket_id, round_num, Head(bracket_rounds))
         IN games \o BracketGames_CountsGames(year, bracket_id,
                                              IF games = <<>> THEN round_num ELSE round_num + 1,
                                              Tail(bracket_rounds))

\* round_num = 1; for bracket_round in bracket_rounds: ...; round_num += 1
RECURSIVE BracketGames(_, _, _, _)
BracketGames(year, bracket_id, round_num, bracket_rounds) ==
    IF bracket_rounds = <<>> THEN <<>>
    ELSE RoundGames(year, bracket_id, round_num, Head(bracket_rounds))
            \o BracketGames(year, bracket_id, round_num + 1, Tail(bracket_rounds))

\* _parse_bracket_games
parse_bracket_games(year, bracket_child) ==
    BracketGames(year, BracketId(bracket_child), 1, bracket_child.rounds)

\* the sequences over a set, up to a length
SeqUpTo(S, n) == UNION {[1..k -> S] : k \in 0..n}

\* the texts of the children of a team node: nothing, numbers, a letter, white space
\* around them, white space alone
TeamTexts ==
    {<<>>, <<"1">>, <<"1", "6">>, <<"D">>, <<" ", "8">>, <<"D", " ">>, <<" ">>}
TeamNodes ==
    {Node(classes, children, NoLink) :
        classes \in {{"team"}, {"team", "winner"}}, children \in SeqUpTo(TeamTexts, MaxChildren)}

\* the children of a game node: teams that parse, a team without a name, a team
\* without fields, and location nodes with and without a link, with and without "at "
GameChildren ==
    {Node({"team", "winner"}, <<<<"1">>, <<"D">>, <<"1", "6">>>>, NoLink),
     Node({"team"}, <<<<"1", "6">>, <<"G">>>>, NoLink),
     Node({"team"}, <<<<"1">>, <<" ">>, <<"8">>>>, NoLink),
     Node({"team"}, <<>>, NoLink),
     Node({"location"}, <<<<"a", "t", " ", "D">>>>, Link(<<"a", "t", " ", "D">>)),
     Node({"location"}, <<<<"a", "t", " ", " ", "D", " ">>>>, Link(<<"a", "t", " ", " ", "D", " ">>)),
     Node({"location"}, <<<<"D">>>>, Link(<<"D">>)),
     Node({"location"}, <<<<"D">>>>, NoLink)}
GameNodes == {Node({"game"}, children, NoLink) : children \in SeqUpTo(GameChildren, MaxChildren)}

\* the round containers of a bracket: without a node, with an empty node, with games,
\* with a node that gives no game
GoodGame ==
    Node({"game"}, <<Node({"team", "winner"}, <<<<"1">>, <<"D">>, <<"1", "6">>>>, NoLink),
                     Node({"team"}, <<<<"1", "6">>, <<"G">>>>, NoLink)>>, NoLink)
LoneTeamGame ==
    Node({"game"}, <<Node({"team"}, <<<<"1", "6">>, <<"G">>>>, NoLink)>>, NoLink)
EmptyNode == Node({}, <<>>, NoLink)
Rounds ==
    {<<>>, <<EmptyNode>>, <<GoodGame>>, <<LoneTeamGame, GoodGame>>, <<GoodGame, GoodGame>>}
Brackets == {[id |-> id, rounds |-> rounds] : id \in {"East", NoId}, rounds \in SeqUpTo(Rounds, MaxRounds)}

ParseYear == CURRENT_YEAR
NoResult == [none |-> TRUE, called |-> FALSE]
Parsing(fn, node) == [kind |-> "parse", fn |-> fn, node |-> node, pc |-> "call", result |-> NoResult]

InitParse ==
    /\ clock = 0
    /\ tasks = {}
    /\ task = <<>>
    /\ worker = <<>>
    /\ handler = [h \in Handlers |-> IdleHandler]
    /\ response = NoResponse
    /\ files = <<>>
    /\ \/ \E team_node \in TeamNodes : pipe = Parsing("_parse_team", team_node)
       \/ \E game_node \in GameNodes : pipe = Parsing("_parse_game", game_node)
       \/ \E bracket_child \in Brackets : pipe = Parsing("_parse_bracket_games", bracket_child)

call_parse_team ==
    /\ pipe.fn = "_parse_team" /\ pipe.pc = "call"
    /\ pipe' = [pipe EXCEPT !.pc = "returned", !.result = parse_team(pipe.node)]
    /\ UNCHANGED <<clock, tasks, task, worker, handler, response, files>>

call_parse_game ==
    /\ pipe.fn = "_parse_game" /\ pipe.pc = "call"
    /\ pipe' = [pipe EXCEPT !.pc = "returned",
                            !.result = parse_game(ParseYear, "East", 1, pipe.node)]
    /\ UNCHANGED <<clock, tasks, task, worker, handler, response, files>>

call_parse_bracket_games ==
    /\ pipe.fn = "_parse_bracket_games" /\ pipe.pc = "call"
    /\ pipe' = [pipe EXCEPT !.pc = "returned",
                            !.result = [games |-> parse_bracket_games(ParseYear, pipe.node)]]
    /\ UNCHANGED <<clock, tasks, task, worker, handler, response, files>>

NextParse ==
    \/ call_parse_team
    \/ call_parse_game
    \/ call_parse_bracket_games

SpecParse == InitParse /\ [][NextParse]_vars

(***************************************************************************)
(* read_write_data (utils.py): read the stored dataset or compute it       *)
(***************************************************************************)
\* how many calls of read_write_data follow one another
MaxCalls == 4

\* a dataset: its columns and the number of its rows
DataFrame(columns, rows) == [columns |-> columns, rows |-> rows]
\* pd.DataFrame(func(*args, **kwargs)): what the function gave, as a frame: nothing
\* at all (an empty list), columns without a row, or rows
FuncResults ==
    {DataFrame(<<>>, 0)}
        \cup {DataFrame(columns, rows) :
                columns \in {<<"Team">>, <<"Team", "Score">>}, rows \in 0..MaxRows}
\* DataFrame.empty
NoRows(df) == df.columns = <<>> \/ df.rows = 0

\* DataFrame.to_csv(path, index=False): the header line and one line per row; a
\* frame without columns gives a file with an empty line only
CsvFile(data_name, df) ==
    [name |-> data_name,
     header |-> df.columns,
     lines |-> IF df.columns = <<>> THEN 0 ELSE df.rows]
\* pd.read_csv(path): the frame of the file; a file without a header line has no
\* columns to parse, which raises EmptyDataError
ReadCsv(file) ==
    IF file.header = <<>>
    THEN [exc |-> "EmptyDataError", df |-> DataFrame(<<>>, 0)]
    ELSE [exc |-> None, df |-> DataFrame(file.header, file.lines)]

DataName == "AllScores"
NoCall == [before |-> <<>>, called |-> FALSE, exc |-> None, returned |-> DataFrame(<<>>, 0)]
NewCache == [kind |-> "cache", runs |-> 0, calls |-> 0, last |-> NoCall]

\* no file of the name is stored, or the file an earlier run of the program stored
InitCache ==
    /\ clock = 0
    /\ tasks = {}
    /\ task = <<>>
    /\ worker = <<>>
    /\ handler = [h \in Handlers |-> IdleHandler]
    /\ response = NoResponse
    /\ files \in {<<>>} \cup {<<CsvFile(DataName, df)>> : df \in FuncResults}
    /\ pipe = NewCache

\* read_write_data(data_name, func): `result` is what func gives if it is called
read_write_data(data_name, result) ==
    LET isfile == files # <<>>
        read == IF isfile THEN ReadCsv(files[1]) ELSE [exc |-> None, df |-> DataFrame(<<>>, 0)]
    IN /\ pipe.runs < MaxCalls
       /\ IF read.exc # None
          THEN /\ files' = files
               /\ pipe' = [pipe EXCEPT !.runs = @ + 1,
                                       !.last = [before |-> files, called |-> FALSE,
                                                 exc |-> read.exc,
                                                 returned |-> DataFrame(<<>>, 0)]]
          ELSE IF NoRows(read.df)
          THEN /\ files' = <<CsvFile(data_name, result)>>
               /\ pipe' = [pipe EXCEPT !.runs = @ + 1,
                                       !.calls = @ + 1,
                                       !.last = [before |-> files, called |-> TRUE,
                                                 exc |-> None, returned |-> result]]
          ELSE /\ files' = files
               /\ pipe' = [pipe EXCEPT !.runs = @ + 1,
                                       !.last = [before |-> files, called |-> FALSE,
                                                 exc |-> None, returned |-> read.df]]
       /\ UNCHANGED <<clock, tasks, task, worker, handler, response>>

NextCache ==
    \E result \in FuncResults : read_write_data(DataName, result)

SpecCache == InitCache /\ [][NextCache]_vars

(***************************************************************************)
(* Properties                                                              *)
(***************************************************************************)
TriggerStep == \E type \in TaskTypes, s \in StartYears, e \in EndYears : scrape_view(type, s, e)

\* C1: once cancel() has made a task Cancelled, its status is Cancelled for ever
\* after: no later step of any thread makes it Running, Success or Failure.
C1_CancelledForEver ==
    [][\A id \in Ids : task[id].status = CANCELLED => task'[id].status = CANCELLED]_vars

AllowedTransitions ==
    {<<PENDING, RUNNING>>, <<RUNNING, SUCCESS>>, <<RUNNING, FAILURE>>,
     <<PENDING, CANCELLED>>, <<RUNNING, CANCELLED>>}

\* C2: every change of a task's status is one of Pending->Running, Running->Success,
\* Running->Failure, Pending->Cancelled, Running->Cancelled; in particular no step
\* changes a status that is Success, Failure or Cancelled.
C2_StateMachine ==
    [][\A id \in Ids :
          task'[id].status # task[id].status
            => <<task[id].status, task'[id].status>> \in AllowedTransitions]_vars

\* C3: cancel() on a Pending or Running task leaves it Cancelled with the flag set and
\* a completion timestamp; on a Success, Failure or Cancelled task it changes nothing.
C3_CancelContract ==
    [][\A id \in Ids :
          cancel_task_view(id) =>
             IF task[id].status \in {PENDING, RUNNING}
             THEN /\ task'[id].status = CANCELLED
                  /\ task'[id].cancelled = TRUE
                  /\ task'[id].completed_at # NoTime
             ELSE /\ task'[id].status = task[id].status
                  /\ task'[id].cancelled = task[id].cancelled
                  /\ task'[id].completed_at = task[id].completed_at
                  /\ task'[id].error = task[id].error
                  /\ task'[id].progress = task[id].progress]_vars

C3_Witness ==
    \E id \in Ids : /\ task[id].status = CANCELLED
                    /\ task[id].cancelled
                    /\ task[id].completed_at # NoTime
                    /\ task[id].error = CancelMessage

\* C4: after the pipeline returned normally, the worker of a task that is not cancelled
\* completes it (Success, progress 100, completion timestamp, no error); the worker of
\* a cancelled task changes nothing, so a Cancelled task remains Cancelled.
C4_NormalReturn ==
    [][\A id \in Ids :
          /\ (worker_returned(id) /\ ~task[id].cancelled)
                => worker'[id].pc = "complete" /\ task'[id] = task[id]
          /\ (worker_returned(id) /\ task[id].cancelled)
                => worker'[id].pc = "done" /\ task'[id] = task[id]
          /\ worker_complete(id) =>
                /\ worker'[id].pc = "done"
                /\ IF task[id].status # CANCELLED
                   THEN /\ task'[id].status = SUCCESS
                        /\ task'[id].progress = 100
                        /\ task'[id].completed_at # NoTime
                        /\ task'[id].error = None
                   ELSE task'[id] = task[id]]_vars

C4_Witness ==
    \E id \in Ids : /\ worker[id].pc = "done"
                    /\ task[id].status = SUCCESS
                    /\ task[id].progress = 100
                    /\ task[id].completed_at # NoTime
                    /\ task[id].error = None

\* C5: when the pipeline raised an error other than the cancellation signal, the worker
\* of a task that is not Cancelled makes it Failure with the error's text, a completion
\* timestamp and progress 100; for a Cancelled task the error changes nothing.
C5_ErrorBecomesFailure ==
    [][\A id \in Ids :
          /\ worker_except(id) =>
                /\ task'[id] = task[id]
                /\ worker'[id].pc = IF task[id].status # CANCELLED THEN "fail" ELSE "done"
                /\ worker'[id].pc = "fail" => worker'[id].exc = worker[id].exc
          /\ worker_fail(id) =>
                /\ worker'[id].pc = "done"
                /\ IF task[id].status # CANCELLED
                   THEN /\ task'[id].status = FAILURE
                        /\ task'[id].error = worker[id].exc
                        /\ task'[id].error # None
                        /\ task'[id].completed_at # NoTime
                        /\ task'[id].progress = 100
                   ELSE task'[id] = task[id]]_vars

C5_Witness ==
    \E id \in Ids : /\ worker[id].pc = "done"
                    /\ task[id].status = FAILURE
                    /\ task[id].error = ScrapeErrorMessage
                    /\ task[id].progress = 100

\* C6: when the pipeline raised the cancellation signal, the worker ends without
\* changing the task, and the task's status at that moment is Cancelled.
C6_CancelSignalEndsCancelled ==
    [][\A id \in Ids :
          worker_except_cancelled(id) =>
             /\ task'[id] = task[id]
             /\ worker'[id].pc = "done"
             /\ task'[id].status = CANCELLED]_vars

\* the worker has not passed its pre-start check, or it ended there
NeverStarted(w, t) ==
    \/ w.pc = "check" /\ t.cancelled
    \/ w.pc = "done" /\ t.started_at = NoTime

\* C7: a task that is cancelled before its worker's pre-start check is never started:
\* the worker ends at the check, the pipeline is not entered, the status stays
\* Cancelled and the start timestamp stays null.
C7_CancelledBeforeCheck ==
    [][\A id \in Ids :
          NeverStarted(worker[id], task[id]) =>
             /\ NeverStarted(worker'[id], task'[id])
             /\ task'[id].status = CANCELLED
             /\ task'[id].started_at = NoTime]_vars

C7_Witness ==
    \E id \in Ids : /\ worker[id].pc = "done"
                    /\ task[id].started_at = NoTime
                    /\ task[id].status = CANCELLED

\* C8 as stated: progress is in [0, 100], in [0, 99] while Pending or Running, and 100
\* only if the status is Success.
C8_ProgressOnlySuccess ==
    \A id \in Ids :
        /\ task[id].progress \in 0..100
        /\ task[id].status \in {PENDING, RUNNING} => task[id].progress \in 0..99
        /\ task[id].progress = 100 => task[id].status = SUCCESS

\* C8 amended: progress is in [0, 100], in [0, 99] while Pending or Running, and 100
\* only if the status is Success or Failure.
C8_ProgressRange ==
    \A id \in Ids :
        /\ task[id].progress \in 0..100
        /\ task[id].status \in {PENDING, RUNNING} => task[id].progress \in 0..99
        /\ task[id].progress = 100 => task[id].status \in {SUCCESS, FAILURE}

C8_Witness ==
    /\ \E id \in Ids : task[id].status = FAILURE /\ task[id].progress = 100
    /\ \E id \in Ids : task[id].status = CANCELLED /\ task[id].progress = 99

Clamped(p) == IF p < 0 THEN 0 ELSE IF p > 99 THEN 99 ELSE p

\* C9: update_progress(p) on a task that is not Cancelled sets the progress to p
\* clamped to [0, 99], doing it again changes nothing, on a Cancelled task it changes
\* nothing; complete(True) on a task that is not Cancelled sets the progress to 100.
C9_UpdateProgressClamps ==
    [][\A id \in Ids :
          /\ \A p \in ProgressInputs :
                task_update_progress(id, p) =>
                   IF task[id].status # CANCELLED
                   THEN /\ task'[id] = [task[id] EXCEPT !.progress = Clamped(p)]
                        /\ UpdateProgress(task'[id], p) = task'[id]
                   ELSE task'[id] = task[id]
          /\ \A error \in ErrorInputs :
                (task_complete(id, TRUE, error) /\ task[id].status # CANCELLED)
                   => task'[id].progress = 100]_vars

C9_Witness ==
    \E id \in Ids : /\ task[id].status = RUNNING
                    /\ task[id].progress = 99

\* C10: the sweep of a trigger request removes a task if and only if its status is
\* Success, Failure or Cancelled and its completion timestamp is more than one hour
\* old, and it leaves every retained task unchanged.
C10_SweepExact ==
    [][TriggerStep =>
          \A id \in tasks :
             /\ id \notin tasks' <=>
                   /\ task[id].status \in Terminal
                   /\ task[id].completed_at # NoTime
                   /\ clock - task[id].completed_at > RetentionSeconds
             /\ id \in tasks' => task'[id] = task[id]]_vars

\* a task the sweep may remove at this instant
Eligible(t, now) ==
    /\ t.status \in Terminal
    /\ t.completed_at # NoTime
    /\ now - t.completed_at > RetentionSeconds

\* C11: when sweeps are interleaved with create, get, list_recent, cancel and other
\* sweeps, no step answers a caller with an error, every task a step removes is
\* eligible for removal and is removed by the deletion of one sweep only, and no step
\* removes a task other than the one a sweep is deleting, so a task created during
\* a sweep stays registered.
C11_ConcurrentSweepSafe ==
    [][/\ response'.status # INTERNAL_SERVER_ERROR
       /\ \A id \in tasks \ tasks' :
             /\ Eligible(task[id], clock)
             /\ \E h \in Handlers : /\ cleanup_delete(h)
                                    /\ Head(handler[h].marked) = id
       /\ \A h \in Handlers, type \in TaskTypes, s \in StartYears, e \in EndYears :
             create_and_run(h, type, s, e) => tasks' = tasks \cup {Len(task) + 1}]_vars

C13_NotFound ==
    [][\A tid \in RequestIds :
          /\ task_status(tid) =>
                /\ tasks' = tasks /\ task' = task
                /\ IF tid \in tasks
                   THEN /\ response'.status = OK
                        /\ response'.success
                        /\ response'.body = <<tid>>
                   ELSE /\ response'.status = NOT_FOUND
                        /\ ~response'.success
                        /\ response'.error = NotFoundMessage
          /\ (cancel_task_response(tid) /\ tid \notin tasks) =>
                /\ tasks' = tasks /\ task' = task
                /\ response'.status = NOT_FOUND
                /\ ~response'.success
                /\ response'.error = NotFoundMessage]_vars

\* a request for a task that a sweep removed, while another task is registered
C13_Witness ==
    /\ response.status = NOT_FOUND /\ ~response.success
    /\ tasks # {}
    /\ Ids \ tasks # {}

\* the answer b to list_recent(limit) on the registry reg
RecentAnswer(b, limit, reg, heap) ==
    /\ Len(b) = Min(limit, Cardinality(reg))
    /\ \A i \in 1..Len(b) : b[i] \in reg
    /\ \A i \in 1..Len(b), j \in 1..Len(b) :
          i < j => b[i] # b[j] /\ heap[b[i]].created_at >= heap[b[j]].created_at
    /\ \A id \in reg \ {b[i] : i \in 1..Len(b)} :
          \A i \in 1..Len(b) : heap[b[i]].created_at >= heap[id].created_at

\* C14: list_recent(limit) returns min(limit, number of registered tasks) tasks, ordered
\* by creation time from newest to oldest, and no task left out was created later than
\* a task returned; the recent-tasks endpoint returns list_recent(10).
C14_RecentNewestFirst ==
    [][/\ \A limit \in Limits :
             get_recent_tasks(limit) => RecentAnswer(response'.body, limit, tasks, task)
       /\ recent_tasks =>
             /\ response'.body = GetRecentTasks(tasks, task, 10)
             /\ RecentAnswer(response'.body, 10, tasks, task)]_vars

C14_Witness ==
    /\ response.body = <<2, 1>>
    /\ {1, 2} \subseteq tasks
    /\ task[2].created_at > task[1].created_at

\* C15: a pipeline invoked with [start_year, end_year] attempts the years of the range
\* other than 2020 in ascending order and each once; when it has gone through its
\* loop it has attempted exactly these years; 2020 is never fetched and never written.
C15_YearsAttempted ==
    \A id \in Ids :
       LET t == task[id]
           a == pipe.attempted
           expected == {y \in t.start_year..t.end_year : y # 2020}
       IN /\ \A k \in 1..Len(a) : a[k] \in expected
          /\ \A k \in 1..Len(a), l \in 1..Len(a) : k < l => a[k] < a[l]
          /\ \A k \in 1..Len(a) : \A y \in expected : y < a[k] => \E l \in 1..k : a[l] = y
          /\ (worker[id].pc \in {"finish", "returned", "complete"} \/ t.status = SUCCESS)
                => {a[k] : k \in 1..Len(a)} = expected
          /\ worker[id].pc \in {"end_day", "helper", "item", "get", "write", "progress"}
                => Len(a) > 0 /\ Year(id) = a[Len(a)]
          /\ \A k \in 1..Len(files) : files[k].year # 2020

C15_Witness ==
    \E id \in Ids :
       /\ task[id].status = SUCCESS
       /\ task[id].start_year < 2019 /\ task[id].end_year > 2020
       /\ Len(pipe.attempted) = task[id].end_year - task[id].start_year
       /\ \E k \in 1..Len(files) : files[k].year = 2021

\* the year files that a step writes
NewYearFiles ==
    {files'[k].year : k \in {j \in (Len(files) + 1)..Len(files') :
                                files'[j].name # AllScores.name}}

C17_YearErrorSkipsYear ==
    [][\A id \in Ids :
          /\ pipe'.outcome = Append(pipe.outcome, "failed") =>
                /\ worker'[id].pc = "progress"
                /\ worker'[id].i = worker[id].i
                /\ files' = files
                /\ task' = task
          /\ (worker[id].pc # "done" /\ worker'[id].pc = "done"
              /\ ~task'[id].cancelled /\ ~pipe.aborted) =>
                /\ task'[id].status = SUCCESS
                /\ pipe.attempted = YearsToProcess(task[id])
                /\ Len(pipe.outcome) = Len(pipe.attempted)]_vars

\* a year failed, a later year was written, and the task ended in Success
C17_Witness ==
    \E id \in Ids :
       /\ task[id].status = SUCCESS
       /\ \E k \in 1..Len(pipe.outcome), l \in 1..Len(pipe.outcome) :
             k < l /\ pipe.outcome[k] = "failed" /\ pipe.outcome[l] = "written"

\* C18: with n the number of years to process, the progress update after the k-th
\* attempted year sets the progress of a task that is not Cancelled to
\* min(99, floor(100 * k / n)); the progress changes only there, once per attempted
\* year, and when the worker completes the task, and it becomes 100 only then.
C18_ProgressPerYear ==
    [][\A id \in Ids :
          LET k == worker[id].i + 1
              n == Len(YearsToProcess(task[id]))
          IN /\ (pipeline_progress(id) /\ task[id].status # CANCELLED)
                   => task'[id].progress = Min(99, (100 * k) \div n)
             /\ task'[id].progress # task[id].progress
                   => pipeline_progress(id) \/ worker_complete(id) \/ worker_fail(id)
             /\ (task'[id].progress = 100 /\ task[id].progress # 100)
                   => worker_complete(id) \/ worker_fail(id)]_vars

\* the positions of the file of a year among the writes
Writes(kind, year) == {j \in 1..Len(files) : files[j] = YearFile(kind, year)}

\* every year before the one in progress has ended, and the years that ended with a
\* dataset are the years whose file was written, once and in the order of the years
YearFilesWritten ==
    LET a == pipe.attempted
        o == pipe.outcome
    IN /\ Len(o) \in {Len(a) - 1, Len(a)}
       /\ \A k \in 1..Len(a) :
             Cardinality(Writes(pipe.kind, a[k])) = IF k <= Len(o) /\ o[k] = "written"
                                                   THEN 1 ELSE 0
       /\ \A j \in 1..Len(files), l \in 1..Len(files) :
             (j < l /\ files[l].name # AllScores.name) => files[j].year < files[l].year

\* C19: the dataset of a year is written before the pipeline begins a later year: a
\* year whose processing reached the write with rows ends written unless the write
\* raises, and before a later year begins; so whenever the pipeline is cancelled or
\* aborts, the file of every earlier year that ended with a dataset is there, and no
\* step of the pipeline changes or removes a file that was written.
C19_WrittenBeforeNextYear ==
    /\ [](pipe.kind # "none" => YearFilesWritten)
    /\ [][/\ Len(files') >= Len(files)
          /\ SubSeq(files', 1, Len(files)) = files
          /\ \A id \in Ids :
                (worker[id].pc = "write" /\ pipe.rows /\ pipe'.outcome # pipe.outcome) =>
                   /\ pipe'.outcome[Len(pipe'.outcome)] \in {"written", "failed"}
                   /\ pipe'.outcome[Len(pipe'.outcome)] = "written"
                         => files' = Append(files, YearFile(pipe.kind, Year(id)))]_vars

\* a pipeline that was cancelled in its second year or later, after it wrote a year
C19_Witness ==
    \E id \in Ids :
       /\ worker[id].pc = "done"
       /\ task[id].status = CANCELLED
       /\ Len(pipe.attempted) >= 2
       /\ pipe.outcome[1] = "written"
       /\ Len(files) >= 1

\* C20: a year that yields no usable rows writes no file and does not fail the
\* pipeline; while no year has ended with a dataset no file at all is written,
\* AllScores included, and the worker of a pipeline that was neither cancelled nor
\* aborted, every year of which yielded no rows, ends with the task in Success with
\* progress 100 and no error.
C20_EmptyYears ==
    /\ []((\A k \in 1..Len(pipe.outcome) : pipe.outcome[k] # "written") => files = <<>>)
    /\ [](\A id \in Ids :
            (/\ pipe.kind # "none"
             /\ worker[id].pc = "done"
             /\ ~task[id].cancelled /\ ~pipe.aborted
             /\ \A k \in 1..Len(pipe.outcome) : pipe.outcome[k] = "empty")
            => /\ Len(pipe.outcome) = Len(YearsToProcess(task[id]))
               /\ files = <<>>
               /\ task[id].status = SUCCESS
               /\ task[id].progress = 100
               /\ task[id].error = None)
    /\ [][\A id \in Ids :
            /\ (worker[id].pc = "write" /\ ~pipe.rows /\ worker'[id].pc # "write") =>
                  /\ pipe'.outcome = Append(pipe.outcome, "empty")
                  /\ files' = files
            /\ pipe'.outcome = Append(pipe.outcome, "empty") =>
                  /\ files' = files
                  /\ task' = task
                  /\ worker'[id].pc = "progress"]_vars

\* a Scores pipeline over two years or more, none of which had a game
C20_Witness ==
    \E id \in Ids :
       /\ pipe.kind = "scrape_scores"
       /\ task[id].status = SUCCESS /\ task[id].progress = 100
       /\ Len(pipe.outcome) >= 2
       /\ \A k \in 1..Len(pipe.outcome) : pipe.outcome[k] = "empty"
       /\ files = <<>>

\* C21: a 403 to the request of a metric page never skips the page or the year and
\* never fails the task: the worker sleeps five minutes and sends the request
\* again, so that a page answered k times 403 and then 200 is scraped after
\* exactly k sleeps and k + 1 requests
C21_ForbiddenRetried ==
    /\ [](pipe.slept = 300 * pipe.retries /\ pipe.sent >= pipe.retries)
    /\ [][\A id \in Ids :
            /\ scrape_wire(id, FORBIDDEN) =>
                  /\ worker' = worker
                  /\ task' = task
                  /\ pipe'.retries = pipe.retries + 1
                  /\ pipe'.sent = pipe.sent + 1
                  /\ pipe'.item = pipe.item
                  /\ pipe'.rows = pipe.rows
                  /\ pipe'.outcome = pipe.outcome
            /\ (scrape_wire(id, OK) /\ pipe.sent = pipe.retries) =>
                  /\ worker'[id].pc = "parse"
                  /\ pipe'.sent = pipe.retries + 1
                  /\ pipe'.slept = 300 * pipe.retries
                  /\ pipe'.item = pipe.item]_vars

\* a page answered 403 MaxForbidden times and then 200
C21_Witness ==
    \E id \in Ids :
        /\ worker[id].pc = "parse"
        /\ pipe.retries = MaxForbidden
        /\ pipe.sent = MaxForbidden + 1
        /\ pipe.slept = 300 * MaxForbidden

\* C22: a request answered with a status of 429, 500, 502, 503, 504 is sent at most
\* 1 + 3 times and then skips its page only; a status that is neither one of these
\* nor 403, such as 404, skips its page at once; neither fails the task
C22_TransientAndFatal ==
    /\ [](pipe.resent <= 3)
    /\ [][\A id \in Ids : \A status \in status_forcelist \cup {NOT_FOUND_PAGE} :
            scrape_wire(id, status) =>
               /\ task' = task
               /\ worker'[id].exc = worker[id].exc
               /\ pipe'.attempted = pipe.attempted
               /\ pipe'.outcome = pipe.outcome
               /\ pipe'.rows = pipe.rows
               /\ IF status \in status_forcelist /\ pipe.resent < 3
                  THEN /\ worker' = worker
                       /\ pipe'.resent = pipe.resent + 1
                       /\ pipe'.sent = pipe.sent + 1
                       /\ pipe'.item = pipe.item
                  ELSE /\ worker'[id].pc = "item"
                       /\ pipe'.item = pipe.item + 1]_vars

\* the fourth send of a request is on the wire after three answers of
\* status_forcelist, and the page before it was skipped
C22_Witness ==
    \E id \in Ids :
        /\ worker[id].pc = "get"
        /\ pipe.resent = 3
        /\ pipe.sent = 3
        /\ pipe.retries = 0
        /\ pipe.item > 0
        /\ ~pipe.rows

\* the datasets aggregate_year_data finds for the year
Inputs(year) ==
    [n \in {m \in DOMAIN Sources : Stored(files, Sources[m], year)} |->
        read_df_from_csv(files, Sources[n], year)]
Missing(year) ==
    {Sources[n] : n \in {m \in DOMAIN Sources :
                            \/ ~Stored(files, Sources[m], year)
                            \/ read_df_from_csv(files, Sources[m], year).rows = <<>>}}

\* C23: aggregate(year) fails with the MissingDataset error naming the missing file
\* and the year whenever one of the three datasets is absent or has zero rows, and
\* then writes no Combined file and leaves every stored dataset as it is
C23_MissingDataset ==
    [][(aggregate_year_data(CURRENT_YEAR) /\ Missing(CURRENT_YEAR) # {}) =>
          /\ pipe'.exc = "MissingDatasetError"
          /\ pipe'.message.file \in Missing(CURRENT_YEAR)
          /\ pipe'.message.year = CURRENT_YEAR
          /\ files' = files]_vars

\* each team is listed once: no two rows have names of the same canonical name
OncePerTeam(rows) ==
    \A i, j \in DOMAIN rows :
        standardize_team_name(rows[i].Team) = standardize_team_name(rows[j].Team) => i = j

\* C24: the combined dataset has at most one row per canonical name whenever each
\* of the three datasets lists each team once: rows whose names are aliases of one
\* canonical name are joined into one row
C24_OneRowPerTeam ==
    [][(/\ aggregate_year_data(CURRENT_YEAR)
        /\ pipe'.exc = None
        /\ \A n \in DOMAIN Inputs(CURRENT_YEAR) : OncePerTeam(Inputs(CURRENT_YEAR)[n].rows)) =>
          \A i, j \in DOMAIN pipe'.returned :
              pipe'.returned[i].Team = pipe'.returned[j].Team => i = j]_vars

\* C25: the team names of the combined dataset are the names the normalizer gives
\* for the names of the three datasets, all of them: no team is dropped
C25_NoTeamDropped ==
    [][(aggregate_year_data(CURRENT_YEAR) /\ pipe'.exc = None) =>
          /\ Keys(pipe'.returned) =
                {standardize_team_name(name) :
                    name \in UNION {Keys(Inputs(CURRENT_YEAR)[n].rows) :
                                       n \in DOMAIN Inputs(CURRENT_YEAR)}}
          /\ files' = Append(files, Combined(CURRENT_YEAR, pipe'.returned))]_vars

\* a combined dataset with a row of a team that only the Stats dataset lists, under
\* its canonical name
C25_Witness ==
    /\ pipe.kind = "aggregate"
    /\ pipe.calls > 0
    /\ pipe.exc = None
    /\ \E n \in DOMAIN pipe.returned :
          /\ pipe.returned[n].from = {"TeamRankingsStats"}
          /\ pipe.returned[n].Team = Plain("Michigan St.")
          /\ Plain("Michigan St.") \notin Keys(Inputs(CURRENT_YEAR)[3].rows)
    /\ files[Len(files)] = Combined(CURRENT_YEAR, pipe.returned)

\* the Combined files of a store, oldest first
CombinedFiles(store) == SelectSeq(store, LAMBDA d : d.name = "Combined")

C26_RangeStopsAtFailure ==
    /\ [](LET done == CombinedFiles(files)
          IN  /\ Len(done) = pipe.year - pipe.start_year
              /\ \A n \in DOMAIN done : done[n].year = pipe.start_year + n - 1
              /\ pipe.pc = "raised" => pipe.exc # None)
    /\ [][(aggregate_all_years /\ pipe.year <= pipe.end_year
              /\ AggregateYearData(files, pipe.year).exc # None) =>
             /\ files' = files
             /\ pipe'.pc = "raised"
             /\ pipe'.exc = AggregateYearData(files, pipe.year).exc
             /\ pipe'.year = pipe.year]_vars
    /\ [][pipe.pc = "raised" => UNCHANGED vars]_vars

\* the second year of a range has a dataset without rows: the first year has its
\* Combined file, the error is MissingDatasetError, a later year was left alone
C26_Witness ==
    /\ pipe.kind = "aggregate"
    /\ pipe.pc = "raised"
    /\ pipe.exc = "MissingDatasetError"
    /\ pipe.year = pipe.start_year + 1
    /\ pipe.year < pipe.end_year
    /\ Len(CombinedFiles(files)) = 1

\* C27: a range with start <= 2020 <= end does not attempt 2020, and the absence
\* of the datasets of 2020 does not fail the range
C27_RangeSkips2020 ==
    /\ [][(aggregate_all_years /\ pipe.year <= pipe.end_year) =>
             pipe.year # SkippedYear]_vars
    /\ [](pipe.pc = "raised" => pipe.year # SkippedYear)

\* the year a request names, by default the current year
RequestedYear(query, path) ==
    IF query.given /\ IsNumber(query.text) THEN ParseInt(query.text)
    ELSE IF path.given THEN path.value
    ELSE CURRENT_YEAR
\* what a trigger view owes to the request it served, for a given notion of a bad
\* year text
TriggerContract(Bad(_)) ==
    clock' = clock =>
        LET qs == handler'["h1"].start_year
            qe == handler'["h1"].end_year
            start_year == RequestedYear(qs, handler'["h1"].path_start_year)
            end_year == RequestedYear(qe, handler'["h1"].path_end_year)
            new == Len(task) + 1
        IN  IF Bad(qs) \/ Bad(qe) \/ start_year > end_year \/ end_year > CURRENT_YEAR
            THEN /\ response'.status = 400
                 /\ ~response'.success
                 /\ response'.error # None
                 /\ UNCHANGED <<tasks, task, worker>>
            ELSE /\ tasks' = CleanupOldTasks(tasks, task, clock) \cup {new}
                 /\ task' = Append(task, task'[new])
                 /\ task'[new].start_year = start_year
                 /\ task'[new].end_year = end_year
                 /\ task'[new].status = PENDING
                 /\ worker' = Append(worker, NewWorker)
                 /\ response'.status = 200
                 /\ response'.body = <<new>>
NotNumeric(query) == query.given /\ ~IsNumber(query.text)
NotNumericText(query) == query.given /\ query.text # <<>> /\ ~IsNumber(query.text)

\* C29: a trigger request with a non-numeric year, with start > end or with
\* end > current year is answered 400 with an error string and nothing else
\* happens (no task, no worker, no sweep); a valid request sweeps first, then
\* creates one task with the two years, each the current year by default, and
\* starts one worker
C29_TriggerValidates == [][TriggerContract(NotNumeric)]_vars

\* C29 as amended: a year parameter that is given but empty counts as not given;
\* the years rejected as non-numeric are the non-empty texts that are no number
C29_TriggerValidatesText == [][TriggerContract(NotNumericText)]_vars

\* a valid request has swept the old task and created the second one with its
\* worker; the request after it was answered 400 and left all of that alone
C29_Witness ==
    /\ response.status = BAD_REQUEST
    /\ response.error = InvalidStartMessage
    /\ Len(task) = 2
    /\ tasks = {2}
    /\ task[2].start_year = CURRENT_YEAR - 1
    /\ task[2].end_year = CURRENT_YEAR
    /\ worker[2] = NewWorker

\* the rows of the files of a store, one file after the other
RECURSIVE Concatenated(_)
Concatenated(store) ==
    IF store = <<>> THEN <<>> ELSE store[1].rows \o Concatenated(Tail(store))

\* C30: a Scores pipeline that returns with at least one game collected has
\* written AllScores, and AllScores holds the games of the per-year Scores files
\* of this run, one year after the other in ascending order; AllScores is the last
\* write, made after every year was attempted, and a pipeline that stopped with
\* the cancellation signal has not written it
C30_AllScores ==
    /\ [](pipe.kind = "scrape_scores" =>
            \A l \in DOMAIN files :
                files[l].name = AllScores.name =>
                   /\ l = Len(files)
                   /\ l > 1
                   /\ \A j \in 1..(l - 1) : files[j].name = FilePrefix(pipe.kind)
                   /\ \A j, k \in 1..(l - 1) : j < k => files[j].year < files[k].year
                   /\ files[l].rows = Concatenated(SubSeq(files, 1, l - 1))
                   /\ pipe.attempted = YearsToProcess(task[1]))
    /\ [](\A id \in Ids :
            (pipe.kind = "scrape_scores" /\ worker[id].pc = "returned" /\ files # <<>>) =>
                files[Len(files)].name = AllScores.name)
    /\ [](\A id \in Ids :
            worker[id].pc = "raised_cancelled" =>
                \A l \in DOMAIN files : files[l].name # AllScores.name)
    /\ [][\A id \in Ids :
            (Len(files') > Len(files) /\ files'[Len(files')].name = AllScores.name) =>
                worker[id].pc = "finish" /\ worker'[id].pc = "returned"]_vars

\* a Scores pipeline has ended in Success over three years or more, one of them
\* without games, and AllScores holds the games of the two years written
C30_Witness ==
    \E id \in Ids :
       /\ pipe.kind = "scrape_scores"
       /\ worker[id].pc = "done"
       /\ task[id].status = SUCCESS
       /\ Len(files) = 3
       /\ files[3].name = AllScores.name
       /\ files[3].rows = YearRows(files[1].year) \o YearRows(files[2].year)
       /\ \E k \in DOMAIN pipe.outcome : pipe.outcome[k] = "empty"

\* the name of the column of team names under which each pipeline writes its file
WrittenKey(source) == IF source = "TRank" THEN "TEAM" ELSE "Team"

\* C38: whenever the T-Rank, Ratings and Stats pipelines have each written a file
\* with rows for a year, aggregate(year) succeeds and writes the Combined file of
\* the year
C38_ScrapedFilesAggregate ==
    [][(/\ aggregate_year_data(CURRENT_YEAR)
        /\ Missing(CURRENT_YEAR) = {}
        /\ \A n \in DOMAIN Sources :
              Inputs(CURRENT_YEAR)[n].key = WrittenKey(Sources[n])) =>
          /\ pipe'.exc = None
          /\ files' = Append(files, Combined(CURRENT_YEAR, pipe'.returned))]_vars

\* the files a scrape_all task may write: Stats and Ratings of the years of its range
AllowedFiles(t) ==
    {YearFile(operations[o], YearsToProcess(t)[k]) :
        o \in DOMAIN operations, k \in DOMAIN YearsToProcess(t)}

\* C37: a scrape_all task writes Stats and Ratings only for the years of its range
\* other than 2020, none of them twice, and all of them once when it succeeds
C37_AllWithinRange ==
    \A id \in DOMAIN task :
        task[id].task_type = "scrape_all" =>
            /\ \A l \in DOMAIN files : files[l] \in AllowedFiles(task[id])
            /\ \A j \in DOMAIN files, l \in DOMAIN files : files[j] = files[l] => j = l

\* what no other thread changes of a task
Frame(t) == <<t.progress, t.started_at, t.task_type, t.start_year, t.end_year, t.created_at>>

\* C35: a cancellation, a status request, a listing or a sweep leaves the progress,
\* the start time, the type, the year range and the creation time of every task as
\* they were, and leaves every worker where it was; a cancellation changes no task
\* but the one it names; and a step that changes the progress or the start time of
\* a task is a step of the worker of that task
C35_OnlyOwnWorker ==
    [][/\ ((\E tid \in RequestIds : cancel_task_response(tid) \/ task_status(tid))
              \/ recent_tasks \/ cleanup_old_tasks) =>
             /\ DOMAIN task' = DOMAIN task
             /\ \A id \in DOMAIN task : Frame(task'[id]) = Frame(task[id])
             /\ worker' = worker
       /\ \A tid \in RequestIds :
             cancel_task_response(tid) =>
                 /\ tasks' = tasks
                 /\ \A id \in DOMAIN task : id # tid => task'[id] = task[id]
       /\ \A id \in DOMAIN task :
             (\/ task'[id].progress # task[id].progress
              \/ task'[id].started_at # task[id].started_at) => OwnWorker(id)]_vars

\* a task that was cancelled by a request after it had started and made progress,
\* and that still has both
C35_Witness ==
    \E id \in DOMAIN task :
        /\ task[id].status = CANCELLED
        /\ task[id].progress > 0
        /\ task[id].started_at # NoTime
        /\ task[id].completed_at > task[id].started_at
        /\ response = [status |-> OK, success |-> TRUE, error |-> None, body |-> <<>>]

\* C40: no step lowers the progress of a task
C40_ProgressNeverDecreases ==
    [][\A id \in DOMAIN task :
          /\ id \in DOMAIN task'
          /\ task'[id].progress >= task[id].progress]_vars

\* a task that made progress in several updates, was completed and then swept
C40_Witness ==
    \E id \in DOMAIN task :
        /\ task[id].progress = ProgressDone
        /\ Len(YearsToProcess(task[id])) > 1
        /\ id \notin tasks

\* C36: under fair scheduling of the worker, every task that was handed to
\* run_task_in_thread comes to a terminal status with its thread ended, and stays so
C36_Terminates ==
    <>[](\A id \in DOMAIN task : worker[id] = EndWorker /\ task[id].status \in Terminal)

\* the metrics of the year whose page came back as a frame, in the order of the
\* requests, and the teams their pages list
RECURSIVE ParsedColumns(_, _)
ParsedColumns(pages, n) ==
    IF n = 0 THEN <<>>
    ELSE ParsedColumns(pages, n - 1) \o (IF pages[n] = NoFrame THEN <<>> ELSE <<n>>)
ParsedTeams(pages) == UNION {pages[n].teams : n \in {m \in DOMAIN pages : pages[m] # NoFrame}}

\* C39: a year that a cancellation interrupted has no Stats or Ratings file, and a
\* file that was written has the column of every metric whose page was fetched and
\* parsed, with the teams of all of these pages
C39_YearFileColumns ==
    /\ pipe.pc = "raised_cancelled" => files = <<>>
    /\ \A l \in DOMAIN files :
          /\ files[l].columns = ParsedColumns(pipe.pages, MaxItems)
          /\ files[l].teams = ParsedTeams(pipe.pages)

\* the text of a link behind its leading "at "
BehindAt(text) == SubSeq(text, Len(AtPrefix) + 1, Len(text))

\* C31: a game node gives a game exactly when it has two children or more and its
\* first two children parse as teams; a game of a node with two children has no
\* location; with a third child the location is the text of its link behind the
\* leading "at " (white space around it removed), and no location, not a failure,
\* when the third child has no such link
C31_GameParsed ==
    (pipe.kind = "parse" /\ pipe.fn = "_parse_game" /\ pipe.pc = "returned") =>
        LET children == pipe.node.children
            game == pipe.result
        IN /\ game # NoGame <=> (/\ Len(children) >= 2
                                 /\ parse_team(children[1]) # NoTeam
                                 /\ parse_team(children[2]) # NoTeam)
           /\ game # NoGame =>
                 /\ game.team_a = parse_team(children[1])
                 /\ game.team_b = parse_team(children[2])
                 /\ Len(children) = 2 => game.location = NoValue
                 /\ Len(children) >= 3 =>
                       LET link == children[3].link IN
                       IF link.found /\ StartsWith(link.text, AtPrefix)
                       THEN game.location = TextValue(Strip(BehindAt(link.text)))
                       ELSE game.location = NoValue

\* a game whose third child has a link that does not begin with "at "
C31_Witness ==
    /\ pipe.kind = "parse" /\ pipe.fn = "_parse_game" /\ pipe.pc = "returned"
    /\ pipe.result # NoGame
    /\ Len(pipe.node.children) = 3
    /\ pipe.node.children[3].link.found
    /\ pipe.result.location = NoValue

\* what the claim says of a seed or a score: an integer when the text is numeric,
\* otherwise the text as it was scraped
AsScraped(text) ==
    IF IsNumber(Strip(text)) THEN IntValue(ParseInt(Strip(text))) ELSE TextValue(text)
\* what holds of them: white space around the text is removed; nothing left gives
\* None, a number gives the integer, anything else the rest of the text
AsStripped(text) ==
    IF Strip(text) = <<>> THEN NoValue
    ELSE IF IsNumber(Strip(text)) THEN IntValue(ParseInt(Strip(text)))
    ELSE TextValue(Strip(text))

\* the contract of _parse_team over a reading of the seed and the score
TeamContract(Field(_)) ==
    (pipe.kind = "parse" /\ pipe.fn = "_parse_team" /\ pipe.pc = "returned") =>
        LET children == pipe.node.children
            team == pipe.result
        IN /\ team = NoTeam <=> (Len(children) < 2 \/ Strip(children[2]) = <<>>)
           /\ team # NoTeam =>
                 /\ team.name = Strip(children[2])
                 /\ team.won = ("winner" \in pipe.node.classes)
                 /\ team.seed = Field(children[1])
                 /\ team.score = IF Len(children) >= 3 THEN Field(children[3]) ELSE NoValue

C33_RoundNumbers ==
    (pipe.kind = "parse" /\ pipe.fn = "_parse_bracket_games" /\ pipe.pc = "returned") =>
        LET rounds == pipe.node.rounds
            games == pipe.result.games
            InRound(i) == SelectSeq(games, LAMBDA g : g.round = i)
        IN /\ rounds = <<>> => games = <<>>
           /\ \A n \in DOMAIN games : games[n].round \in DOMAIN rounds
           /\ \A n \in DOMAIN games : n > 1 => games[n - 1].round <= games[n].round
           /\ \A i \in DOMAIN rounds :
                 InRound(i) = RoundGames(ParseYear, BracketId(pipe.node), i, rounds[i])

\* a bracket whose first two round containers give no game and whose third gives one
C33_Witness ==
    /\ pipe.kind = "parse" /\ pipe.fn = "_parse_bracket_games" /\ pipe.pc = "returned"
    /\ Len(pipe.node.rounds) = 3
    /\ pipe.node.rounds[1] = <<>>
    /\ Len(pipe.result.games) = 1
    /\ pipe.result.games[1].round = 3

\* a non-empty dataset is stored: a file with a header line and at least one row
StoredRows(store) == store # <<>> /\ store[1].header # <<>> /\ store[1].lines > 0

\* C34: read_write_data returns the stored dataset without calling the function when
\* a non-empty dataset is stored; when none is stored or the stored one is empty it
\* calls the function once, stores what it gave and returns it; and the call that
\* follows one that stored a non-empty result does not call the function
C34_ReadOrCompute ==
    /\ [](pipe.kind = "cache" /\ pipe.runs > 0 =>
            /\ pipe.last.exc = None
            /\ IF StoredRows(pipe.last.before)
               THEN /\ ~pipe.last.called
                    /\ pipe.last.returned = DataFrame(pipe.last.before[1].header,
                                                      pipe.last.before[1].lines)
               ELSE /\ pipe.last.called
                    /\ files # <<>> => files[1] = CsvFile(DataName, pipe.last.returned))
    /\ [][\A result \in FuncResults :
             read_write_data(DataName, result) =>
                 /\ pipe'.calls = pipe.calls + (IF pipe'.last.called THEN 1 ELSE 0)
                 /\ ~pipe'.last.called => files' = files
                 /\ (pipe.runs > 0 /\ pipe.last.called /\ ~NoRows(pipe.last.returned)
                        /\ files = <<CsvFile(DataName, pipe.last.returned)>>)
                       => ~pipe'.last.called]_vars
====
